---- MODULE Spec2Model ----
(***************************************************************************)
(* A model of the shex interpreter (crates/shex-interpreter), together     *)
(* with the parameter-expansion parser (crates/shex-parser/string_utils)   *)
(* and the variable resolver (crates/shex-parser/variable_resolver).       *)
(*                                                                         *)
(* Strings that the code inspects character by character (arguments,       *)
(* variable names, values, captured output) are sequences of one-character *)
(* strings.  Option<T> is a sequence of length 0 (None) or 1 (Some).       *)
(* Result<T, E> is a record with the field ok.                             *)
(*                                                                         *)
(* The recursive tree walk of execute_command is an explicit call stack:   *)
(* one frame per active handler, one step from a call or a return to the   *)
(* next call or return.                                                    *)
(***************************************************************************)
EXTENDS Integers, Sequences, FiniteSets, TLC

(***************************************************************************)
(* Option and Result                                                       *)
(***************************************************************************)
None == <<>>

Some(x) == <<x>>

IsSome(o) == Len(o) = 1

Unwrap(o) == o[1]

\* Option::unwrap_or
UnwrapOr(option, default) == IF option = <<>> THEN default ELSE option[1]

Ok(v) == [ok |-> TRUE, val |-> v]

Err(e) == [ok |-> FALSE, err |-> e]

(***************************************************************************)
(* Characters                                                              *)
(***************************************************************************)
Lower == {"a", "b", "c", "d", "e", "f", "g", "h", "i", "j", "k", "l", "m",
          "n", "o", "p", "q", "r", "s", "t", "u", "v", "w", "x", "y", "z"}

Upper == {"A", "B", "C", "D", "E", "F", "G", "H", "I", "J", "K", "L", "M",
          "N", "O", "P", "Q", "R", "S", "T", "U", "V", "W", "X", "Y", "Z"}

Digit == {"0", "1", "2", "3", "4", "5", "6", "7", "8", "9"}

is_ascii_alphabetic(c) == c \in Lower \cup Upper

is_ascii_alphanumeric(c) == c \in Lower \cup Upper \cup Digit

\* text[from..] with a zero-based byte offset, as Rust slices it
SliceFrom(text, from) == SubSeq(text, from + 1, Len(text))

\* text[..to] with a zero-based exclusive end
SliceTo(text, to) == SubSeq(text, 1, to)

\* str::find for a set of characters: zero-based offset of the first
\* occurrence, None when there is none
FindFirst(text, chars) ==
    LET hits == {i \in 1..Len(text) : text[i] \in chars}
    IN  IF hits = {} THEN None
        ELSE Some((CHOOSE i \in hits : \A j \in hits : i <= j) - 1)

\* [String]::join
RECURSIVE Join(_, _)
Join(strs, sep) ==
    IF Len(strs) = 0 THEN <<>>
    ELSE IF Len(strs) = 1 THEN strs[1]
    ELSE strs[1] \o sep \o Join(Tail(strs), sep)

(***************************************************************************)
(* string_utils.rs                                                         *)
(***************************************************************************)
is_valid_variable_name(name) ==
    IF Len(name) = 0 THEN FALSE
    ELSE IF ~is_ascii_alphabetic(name[1]) /\ name[1] # "_" THEN FALSE
    ELSE \A i \in 2..Len(name) : is_ascii_alphanumeric(name[i]) \/ name[i] = "_"

\* ExpansionRequest::simple
SimpleRequest(variable_name) ==
    [variable_name |-> variable_name, mode |-> "Normal",
     parameter |-> None, check_unset |-> FALSE]

Request(variable_name, mode, parameter, check_unset) ==
    [variable_name |-> variable_name, mode |-> mode,
     parameter |-> parameter, check_unset |-> check_unset]

parse_simple_parameter_expansion(text) ==
    IF Len(text) > 1 /\ text[1] = "$"
    THEN LET var_name == SliceFrom(text, 1)
         IN  IF is_valid_variable_name(var_name)
             THEN Some(SimpleRequest(var_name))
             ELSE None
    ELSE None

\* the branch taken when inner contains a ':'
ParseColonForm(inner, colon_pos) ==
    LET var_name == SliceTo(inner, colon_pos)
        rest     == SliceFrom(inner, colon_pos + 1)
        after    == IF Len(rest) > 1 THEN SliceFrom(rest, 1) ELSE <<>>
    IN  IF ~is_valid_variable_name(var_name) THEN None
        ELSE IF Len(rest) = 0 THEN None
        ELSE IF rest[1] = "-"
             THEN Some(Request(var_name, "DefaultValue", Some(after), TRUE))
        ELSE IF rest[1] = "="
             THEN Some(Request(var_name, "AssignDefault", Some(after), TRUE))
        ELSE IF rest[1] = "?"
             THEN Some(Request(var_name, "ErrorIfUnset",
                               IF Len(rest) > 1 THEN Some(SliceFrom(rest, 1))
                               ELSE None, TRUE))
        ELSE IF rest[1] = "+"
             THEN Some(Request(var_name, "AlternativeValue", Some(after), TRUE))
        ELSE None

\* the branch taken when inner has no ':' but one of - = ? +
ParseBareForm(inner, operator_pos) ==
    LET var_name == SliceTo(inner, operator_pos)
        operator == inner[operator_pos + 1]
        rest     == SliceFrom(inner, operator_pos + 1)
    IN  IF ~is_valid_variable_name(var_name) THEN None
        ELSE IF operator = "-"
             THEN Some(Request(var_name, "DefaultValue", Some(rest), FALSE))
        ELSE IF operator = "="
             THEN Some(Request(var_name, "AssignDefault", Some(rest), FALSE))
        ELSE IF operator = "?"
             THEN Some(Request(var_name, "ErrorIfUnset",
                               IF Len(rest) = 0 THEN None ELSE Some(rest),
                               FALSE))
        ELSE IF operator = "+"
             THEN Some(Request(var_name, "AlternativeValue", Some(rest), FALSE))
        ELSE None

parse_parameter_expansion(text) ==
    IF ~(Len(text) >= 2 /\ text[1] = "$" /\ text[2] = "{")
       \/ ~(text[Len(text)] = "}")
    THEN None
    ELSE LET inner        == SubSeq(text, 3, Len(text) - 1)
             colon_pos    == FindFirst(inner, {":"})
             operator_pos == FindFirst(inner, {"-", "=", "?", "+"})
         IN  IF IsSome(colon_pos)
             THEN ParseColonForm(inner, Unwrap(colon_pos))
             ELSE IF IsSome(operator_pos)
             THEN ParseBareForm(inner, Unwrap(operator_pos))
             ELSE IF is_valid_variable_name(inner)
                  THEN Some(SimpleRequest(inner))
                  ELSE None

(***************************************************************************)
(* variable_resolver.rs                                                    *)
(***************************************************************************)
\* HashMap<String, String>: a function from the names it holds
EmptyMap == <<>>

MapInsert(m, k, v) ==
    [n \in DOMAIN m \cup {k} |-> IF n = k THEN v ELSE m[n]]

\* VariableContext::new
NewContext == [variables |-> EmptyMap, parent |-> None]

\* VariableContext::with_parent
WithParent(parent) == [variables |-> EmptyMap, parent |-> Some(parent)]

\* a set that writes into the parent of a context that has one
SetInParent(context, name, value) ==
    IF context.parent # <<>>
    THEN [context EXCEPT !.parent =
             <<[@[1] EXCEPT !.variables = MapInsert(@, name, value)]>>]
    ELSE [context EXCEPT !.variables = MapInsert(@, name, value)]

\* VariableContext::set
CtxSet(context, name, value) ==
    [context EXCEPT !.variables = MapInsert(@, name, value)]

\* VariableContext::get: the local map first, then the parent chain
RECURSIVE CtxGet(_, _)
CtxGet(context, name) ==
    IF name \in DOMAIN context.variables
    THEN Some(context.variables[name])
    ELSE IF IsSome(context.parent)
    THEN CtxGet(Unwrap(context.parent), name)
    ELSE None

\* the names a context can see: its own and those of its parent chain
RECURSIVE VisibleNames(_)
VisibleNames(context) ==
    DOMAIN context.variables
        \cup (IF IsSome(context.parent)
              THEN VisibleNames(Unwrap(context.parent)) ELSE {})

\* an import of every binding the other context can see
ImportVisible(target, other) ==
    [target EXCEPT !.variables =
        [n \in DOMAIN @ \cup VisibleNames(other) |->
            IF n \in VisibleNames(other) THEN Unwrap(CtxGet(other, n))
            ELSE @[n]]]

\* VariableContext::import_from: insert each entry of other.variables
import_from(target, other) ==
    [target EXCEPT !.variables =
        [n \in DOMAIN @ \cup DOMAIN other.variables |->
            IF n \in DOMAIN other.variables THEN other.variables[n]
            ELSE @[n]]]

\* a guard that never lets the present value through
NeverUsable(found, request) == FALSE

\* the guard `Some(value) if !value.is_empty() || !request.check_unset`
HasUsableValue(found, request) ==
    IsSome(found) /\ (Len(Unwrap(found)) # 0 \/ ~request.check_unset)

Resolved(value) == [tag |-> "Resolved", value |-> value]

Unset == [tag |-> "Unset"]

ResolveError(msg) == [tag |-> "Error", msg |-> msg]

ParameterNullOrNotSet ==
    <<":", " ", "p", "a", "r", "a", "m", "e", "t", "e", "r", " ", "n", "u",
      "l", "l", " ", "o", "r", " ", "n", "o", "t", " ", "s", "e", "t">>

MsgDefaultRequiresParameter == <<"Default value expansion requires parameter">>

MsgAssignRequiresParameter == <<"Assign default expansion requires parameter">>

\* resolve_expansion: the returned ResolutionResult
ResolveResult(context, request) ==
    LET found == CtxGet(context, request.variable_name)
    IN  CASE request.mode = "Normal" ->
               IF IsSome(found) THEN Resolved(Unwrap(found)) ELSE Unset
          [] request.mode = "DefaultValue" ->
               IF HasUsableValue(found, request) THEN Resolved(Unwrap(found))
               ELSE IF IsSome(request.parameter)
                    THEN Resolved(Unwrap(request.parameter))
                    ELSE ResolveError(MsgDefaultRequiresParameter)
          [] request.mode = "AssignDefault" ->
               IF HasUsableValue(found, request) THEN Resolved(Unwrap(found))
               ELSE IF IsSome(request.parameter)
                    THEN Resolved(Unwrap(request.parameter))
                    ELSE ResolveError(MsgAssignRequiresParameter)
          [] request.mode = "ErrorIfUnset" ->
               IF HasUsableValue(found, request) THEN Resolved(Unwrap(found))
               ELSE IF IsSome(request.parameter)
                    THEN ResolveError(Unwrap(request.parameter))
                    ELSE ResolveError(request.variable_name
                                      \o ParameterNullOrNotSet)
          [] request.mode = "AlternativeValue" ->
               IF HasUsableValue(found, request)
               THEN IF IsSome(request.parameter)
                    THEN Resolved(Unwrap(request.parameter))
                    ELSE Resolved(<<>>)
               ELSE Resolved(<<>>)

\* a resolution in which DefaultValue assigns as AssignDefault does
DefaultAlsoAssigns(context, request) ==
    LET found == CtxGet(context, request.variable_name)
    IN  IF request.mode \in {"AssignDefault", "DefaultValue"}
           /\ ~HasUsableValue(found, request)
           /\ IsSome(request.parameter)
        THEN CtxSet(context, request.variable_name, Unwrap(request.parameter))
        ELSE context

\* resolve_expansion: the context it leaves behind (&mut VariableContext)
ResolveContext(context, request) ==
    LET found == CtxGet(context, request.variable_name)
    IN  IF request.mode = "AssignDefault"
           /\ ~HasUsableValue(found, request)
           /\ IsSome(request.parameter)
        THEN CtxSet(context, request.variable_name, Unwrap(request.parameter))
        ELSE context

(***************************************************************************)
(* shex-ast: Span, Command, CaseArm, ShexError                             *)
(***************************************************************************)
Span(start, end) == [start |-> start, end |-> end]

\* Span::dummy
DummySpan == Span(0, 0)

\* Redirection { fd, kind, target }
Redirection(fd, kind, target) == [fd |-> fd, kind |-> kind, target |-> target]

\* the command with the redirections attached to it
Redirected(command, redirections) ==
    [command EXCEPT !.redirections = redirections]

Simple(name, args, assignments) ==
    [type |-> "Simple", name |-> name, args |-> args,
     assignments |-> assignments, redirections |-> <<>>]

Pipeline(commands) ==
    [type |-> "Pipeline", commands |-> commands, redirections |-> <<>>]

Assignment(assignments) == [type |-> "Assignment", assignments |-> assignments]

AndIf(left, right) == [type |-> "AndIf", left |-> left, right |-> right]

OrIf(left, right) == [type |-> "OrIf", left |-> left, right |-> right]

Sequence(commands) == [type |-> "Sequence", commands |-> commands]

Background(command) == [type |-> "Background", command |-> command]

If(condition, then_body, elif_clauses, else_body) ==
    [type |-> "If", condition |-> condition, then_body |-> then_body,
     elif_clauses |-> elif_clauses, else_body |-> else_body]

While(condition, body) == [type |-> "While", condition |-> condition, body |-> body]

Until(condition, body) == [type |-> "Until", condition |-> condition, body |-> body]

For(variable, words, body) ==
    [type |-> "For", variable |-> variable, words |-> words, body |-> body]

Case(word, arms) == [type |-> "Case", word |-> word, arms |-> arms]

CaseArm(patterns, commands) == [patterns |-> patterns, commands |-> commands]

Function(name, body) ==
    [type |-> "Function", name |-> name, body |-> body, redirections |-> <<>>]

Subshell(commands) == [type |-> "Subshell", commands |-> commands]

BraceGroup(commands) == [type |-> "BraceGroup", commands |-> commands]

\* ShexError::syntax / undefined_variable / command_not_found
SyntaxError(message, span) ==
    [kind |-> "Syntax", detail |-> message, span |-> span]

UndefinedVariable(var, span) ==
    [kind |-> "UndefinedVariable", detail |-> var, span |-> span]

CommandNotFound(command, span) ==
    [kind |-> "CommandNotFound", detail |-> command, span |-> span]

\* ExitStatus
ExitStatus(code, stdout, stderr) ==
    [code |-> code, stdout |-> stdout, stderr |-> stderr]

\* ExitStatus { code: 0, stdout: String::new(), stderr: String::new() }
ZeroStatus == ExitStatus(0, <<>>, <<>>)

(***************************************************************************)
(* The node a handler works on is addressed by its path from the program:  *)
(* the index of the top-level command, then one selector per level.  Every *)
(* Spanned<Command> carries the span the parser gave it; spans of distinct *)
(* nodes are distinct and none is the dummy span.                          *)
(***************************************************************************)
SelLeft == 1

SelRight == 2

SelCondition == 1

SelBody == 2

SelElif == 3

SelElse == 4

SelInner == 1

RECURSIVE PathCode(_)
PathCode(path) ==
    IF Len(path) = 0 THEN 0
    ELSE PathCode(SubSeq(path, 1, Len(path) - 1)) * 8 + path[Len(path)]

SpanOf(path) == Span(PathCode(path), PathCode(path) + 1)

(***************************************************************************)
(* shex-interpreter: the helpers that do not recurse into execute_command  *)
(***************************************************************************)
\* an execute_assignments that leaves the scope alone
AssignmentsDropped(context, assignments) == context

\* execute_assignments: set every (name, value) pair, in list order
RECURSIVE execute_assignments(_, _)
execute_assignments(context, assignments) ==
    IF Len(assignments) = 0 THEN context
    ELSE execute_assignments(
             CtxSet(context, assignments[1][1], assignments[1][2]),
             Tail(assignments))

\* an expand_single_argument that expands an unset variable to the empty
\* string, as a shell without nounset does
ResolveArgumentLenient(context, request, span) ==
    LET resolution == ResolveResult(context, request)
    IN  [context |-> ResolveContext(context, request),
         res |-> CASE resolution.tag = "Resolved" -> Ok(resolution.value)
                   [] resolution.tag = "Unset" -> Ok(<<>>)
                   [] resolution.tag = "Error" ->
                        Err(SyntaxError(resolution.msg, span))]

\* what expand_single_argument does with a parsed request
ResolveArgument(context, request, span) ==
    LET resolution == ResolveResult(context, request)
    IN  [context |-> ResolveContext(context, request),
         res |-> CASE resolution.tag = "Resolved" -> Ok(resolution.value)
                   [] resolution.tag = "Unset" ->
                        Err(UndefinedVariable(request.variable_name, span))
                   [] resolution.tag = "Error" ->
                        Err(SyntaxError(resolution.msg, span))]

\* expand_single_argument: the context it leaves and the Result it returns
expand_single_argument(context, arg, span) ==
    LET simple == parse_simple_parameter_expansion(arg)
        braced == parse_parameter_expansion(arg)
    IN  IF IsSome(simple) THEN ResolveArgument(context, Unwrap(simple), span)
        ELSE IF IsSome(braced) THEN ResolveArgument(context, Unwrap(braced), span)
        ELSE [context |-> context, res |-> Ok(arg)]

\* expand_arguments: left to right, stopping at the first failure
RECURSIVE ExpandFrom(_, _, _, _)
ExpandFrom(context, args, span, expanded_args) ==
    IF Len(args) = 0 THEN [context |-> context, res |-> Ok(expanded_args)]
    ELSE LET one == expand_single_argument(context, args[1], span)
         IN  IF ~one.res.ok THEN [context |-> one.context, res |-> one.res]
             ELSE ExpandFrom(one.context, Tail(args), span,
                             Append(expanded_args, one.res.val))

\* an expand_arguments that expands every argument against the scope it
\* was given and keeps the changes for afterwards
RECURSIVE ExpandEachFrom(_, _, _, _, _)
ExpandEachFrom(entry, context, args, span, expanded_args) ==
    IF Len(args) = 0 THEN [context |-> context, res |-> Ok(expanded_args)]
    ELSE LET one   == expand_single_argument(entry, args[1], span)
             after == expand_single_argument(context, args[1], span)
         IN  IF ~one.res.ok THEN [context |-> after.context, res |-> one.res]
             ELSE ExpandEachFrom(entry, after.context, Tail(args), span,
                                 Append(expanded_args, one.res.val))

ExpandAgainstEntryScope(context, args, span) ==
    ExpandEachFrom(context, context, args, span, <<>>)

expand_arguments(context, args, span) == ExpandFrom(context, args, span, <<>>)

\* a pattern_matches that treats the pattern * as a glob
GlobMatches(pattern, word) == pattern = word \/ pattern = <<"*">>

\* pattern_matches
pattern_matches(pattern, word) == pattern = word

\* the first arm of a case, in arm order and then pattern order, that has a
\* pattern matching the word; 0 when there is none
FirstMatchingArm(arms, word) ==
    LET hits == {k \in 1..Len(arms) :
                    \E j \in 1..Len(arms[k].patterns) :
                        pattern_matches(arms[k].patterns[j], word)}
    IN  IF hits = {} THEN 0 ELSE CHOOSE k \in hits : \A h \in hits : k <= h

\* a `match name` in which echo is not a built-in
BuiltinsWithoutEcho == {"true", "false"}

\* the names matched before `_` in execute_simple_command
BuiltinNames == {"echo", "true", "false"}

\* built-ins whose echo leaves out the trailing newline
BuiltinStatusBare(name, expanded_args) ==
    CASE name = "echo" -> ExitStatus(0, Join(expanded_args, <<" ">>), <<>>)
      [] name = "true" -> ExitStatus(0, <<>>, <<>>)
      [] name = "false" -> ExitStatus(1, <<>>, <<>>)

\* the built-in arm of the `match name` in execute_simple_command
BuiltinStatus(name, expanded_args) ==
    CASE name = "echo" ->
             ExitStatus(0, Join(expanded_args, <<" ">>) \o <<"\n">>, <<>>)
      [] name = "true" -> ExitStatus(0, <<>>, <<>>)
      [] name = "false" -> ExitStatus(1, <<>>, <<>>)

(***************************************************************************)
(* Inputs: the programs handed to execute, and what a spawned process may  *)
(* do.  Commands are built from a few leaf commands so that every node     *)
(* type occurs, with children that exit 0, exit non-zero, fail with a      *)
(* ShexError, or change the scope.                                         *)
(***************************************************************************)
VarX == <<"X">>

VarY == <<"Y">>

ValA == <<"a">>

ValB == <<"b">>

ValD == <<"d">>

ArgDollarX == <<"$", "X">>

ArgAssignDefaultY == <<"$", "{", "Y", ":", "=", "d", "}">>

ArgStar == <<"*">>

\* true
CmdTrue == Simple("true", <<>>, <<>>)

\* false
CmdFalse == Simple("false", <<>>, <<>>)

\* test: not a built-in, so a process is spawned
CmdTest == Simple("test", <<>>, <<>>)

\* X=a
CmdAssignX == Assignment(<< <<VarX, ValA>> >>)

\* X=b echo $X
CmdPrefixEcho == Simple("echo", <<ArgDollarX>>, << <<VarX, ValB>> >>)

\* X=a X=b echo $X
CmdPrefixTwice ==
    Simple("echo", <<ArgDollarX>>, << <<VarX, ValA>>, <<VarX, ValB>> >>)

\* Y=d X=a X=b test $X $Y: the prefix of a command that may exit non-zero
CmdPrefixTest ==
    Simple("test", <<ArgDollarX, <<"$", "Y">> >>,
           << <<VarY, ValD>>, <<VarX, ValA>>, <<VarX, ValB>> >>)

\* echo
CmdEchoNothing == Simple("echo", <<>>, <<>>)

\* echo a "" ${Y:=d}
CmdEchoWords == Simple("echo", <<ValA, <<>>, ArgAssignDefaultY>>, <<>>)

\* echo $X: fails with UndefinedVariable while X is unset
CmdEchoX == Simple("echo", <<ArgDollarX>>, <<>>)

\* echo ${Y:=d}
CmdEchoAssignDefaultY == Simple("echo", <<ArgAssignDefaultY>>, <<>>)

Atoms ==
    {CmdTrue, CmdFalse, CmdTest, CmdAssignX, CmdPrefixEcho, CmdEchoX,
     CmdEchoAssignDefaultY}

Conditions == {CmdTrue, CmdFalse, CmdTest, CmdEchoX}

SeqAtoms == {CmdFalse, CmdAssignX, CmdEchoX}

Bodies == {<<>>, <<CmdAssignX>>, <<CmdFalse>>, <<CmdEchoX>>,
           <<CmdPrefixEcho, CmdFalse>>}

\* every sequence over S of a length in lens
SeqsOf(S, lens) == UNION {[1..n -> S] : n \in lens}

ElifLists ==
    {<<>>}
    \cup {<< <<c1, <<CmdEchoAssignDefaultY>> >> >> : c1 \in {CmdTrue, CmdFalse}}
    \cup {<< <<c1, <<CmdEchoAssignDefaultY>> >>, <<c2, <<CmdPrefixEcho, CmdFalse>> >> >> :
             c1 \in {CmdTrue, CmdFalse}, c2 \in {CmdTrue, CmdFalse}}

IfCommands ==
    {If(c, t, e, x) : c \in Conditions,
                      t \in {<<CmdAssignX>>},
                      e \in ElifLists,
                      x \in {None, Some(<<>>), Some(<<CmdFalse>>)}}

LoopCommands ==
    {While(c, b) : c \in Conditions, b \in Bodies}
    \cup {Until(c, b) : c \in Conditions, b \in Bodies}

ForCommands ==
    {For(VarX, w, b) : w \in {None, Some(<<>>), Some(<<ValA>>), Some(<<ValA, ValB>>)},
                       b \in {<<>>, <<CmdAssignX>>, <<CmdEchoX>>, <<CmdFalse>>,
                              <<CmdEchoAssignDefaultY>>}}

CaseArms ==
    {<<>>,
     <<CaseArm(<<ValB, ValA>>, <<CmdEchoAssignDefaultY>>),
       CaseArm(<<ValA>>, <<CmdFalse>>),
       CaseArm(<<ArgStar>>, <<CmdAssignX>>)>>,
     <<CaseArm(<<ArgStar>>, <<CmdFalse>>),
       CaseArm(<<ValD, ValB>>, <<CmdAssignX>>)>>}

CaseCommands ==
    {Case(w, a) : w \in {ValA, ArgDollarX, ArgStar, ArgAssignDefaultY}, a \in CaseArms}

\* commands whose children are leaf commands
Level1 ==
    Atoms
    \cup {CmdPrefixTwice, CmdPrefixTest, CmdEchoNothing, CmdEchoWords}
    \cup {AndIf(l, r) : l \in Conditions, r \in Atoms}
    \cup {OrIf(l, r) : l \in Conditions, r \in Atoms}
    \cup {Sequence(cs) : cs \in SeqsOf(SeqAtoms, 0..3)}
    \cup {Pipeline(cs) : cs \in SeqsOf(SeqAtoms, 0..2)}
    \cup {Background(c) : c \in Atoms}
    \cup IfCommands \cup LoopCommands \cup ForCommands \cup CaseCommands
    \cup {Function(<<"f">>, c) : c \in {CmdAssignX, CmdFalse}}
    \cup {Subshell(cs) : cs \in SeqsOf(Atoms, {1})}
    \cup {BraceGroup(cs) : cs \in SeqsOf(Atoms, {1})}

\* commands nested inside a construct that has to pass their result on
Inner ==
    {AndIf(l, r) : l \in {CmdTrue, CmdFalse, CmdEchoX}, r \in {CmdTrue, CmdFalse, CmdEchoX}}
    \cup {Sequence(cs) : cs \in SeqsOf(SeqAtoms, {2})}
    \cup {For(VarX, Some(<<ValA, ValB>>), b) : b \in {<<CmdEchoAssignDefaultY>>, <<CmdFalse>>}}
    \cup {Subshell(<<c>>) : c \in {CmdAssignX, CmdFalse}}
    \cup {Background(c) : c \in {CmdFalse, CmdEchoX}}

NestedOrIfs == {OrIf(c, r) : c \in Inner, r \in {CmdAssignX, CmdFalse}}

Level2 ==
    NestedOrIfs
    \cup {Subshell(<<c>>) : c \in Inner}
    \cup {Subshell(<<c, d>>) : c \in {CmdAssignX, CmdPrefixEcho}, d \in {CmdEchoAssignDefaultY, CmdFalse}}
    \cup {BraceGroup(<<c>>) : c \in Inner}
    \cup {BraceGroup(<<c, d>>) : c \in {CmdAssignX, CmdPrefixEcho, CmdFalse},
                                 d \in {CmdEchoAssignDefaultY, CmdFalse, CmdAssignX}}
    \cup {While(CmdTest, <<c>>) : c \in Inner}
    \cup {If(c, <<CmdAssignX>>, <<>>, Some(<<CmdFalse>>)) : c \in Inner}
    \cup {AndIf(Background(c), CmdAssignX) : c \in {CmdFalse, CmdTest}}

Commands == Level1 \cup Level2

\* the follow-up commands that show whether evaluation went on
Probes == {CmdEchoX}

Programs ==
    {<<>>}
    \cup {<<c>> : c \in Commands}
    \cup {<<c, p>> : c \in Level1 \cup NestedOrIfs, p \in Probes}
    \cup SeqsOf({CmdFalse, CmdTest, CmdAssignX, CmdEchoX}, {3})

(***************************************************************************)
(* Inputs for the parameter expansions: every form over a few names,       *)
(* values and operands, given to echo and to an external command, and the  *)
(* assignments that bring the scope into every combination of unset, empty *)
(* and non-empty.                                                          *)
(***************************************************************************)
ExpansionNames == {<<"v">>, <<"_", "w", "1">>}

ExpansionValues == {<<>>, <<"x">>, <<"y", "z">>}

\* the text after the operator: empty, plain, and with the characters the
\* parser looks for
ExpansionOperands == {<<>>, <<"d">>, <<"a", ":", "b">>, <<"p", "=", "q">>}

OpDefault == <<"-">>

OpAssign == <<"=">>

OpError == <<"?">>

OpAlternative == <<"+">>

Operators == {OpDefault, OpAssign, OpError, OpAlternative}

\* $v
DollarForm(v) == <<"$">> \o v

\* ${v}
BracedForm(v) == <<"$", "{">> \o v \o <<"}">>

\* ${v op operand}
BareForm(v, op, operand) == <<"$", "{">> \o v \o op \o operand \o <<"}">>

\* ${v :op operand}
ColonForm(v, op, operand) ==
    <<"$", "{">> \o v \o <<":">> \o op \o operand \o <<"}">>

ExpansionArgs ==
    {DollarForm(v) : v \in ExpansionNames}
    \cup {BracedForm(v) : v \in ExpansionNames}
    \cup {BareForm(v, op, d) : v \in ExpansionNames, op \in Operators,
                               d \in ExpansionOperands}
    \cup {ColonForm(v, op, d) : v \in ExpansionNames, op \in Operators,
                                d \in ExpansionOperands}

\* arguments with an expansion and more: ${v}b, a$v, $v$v
MixedArgs ==
    UNION {{BracedForm(v) \o <<"b">>, <<"a">> \o DollarForm(v),
            DollarForm(v) \o DollarForm(v)} : v \in ExpansionNames}

\* arguments that begin like an expansion and name no variable:
\* $, $123, ${1x}, ${}, ${v
MalformedArgs ==
    {<<"$">>, <<"$", "1", "2", "3">>, <<"$", "{", "1", "x", "}">>,
     <<"$", "{", "}">>, <<"$", "{", "v">>}

\* two forms in one argument: ${v-x}${v}, ${v:=x}${v}
JoinedArgs ==
    UNION {{BareForm(v, OpDefault, <<"x">>) \o BracedForm(v),
            ColonForm(v, OpAssign, <<"x">>) \o BracedForm(v)} :
              v \in ExpansionNames}

ExpansionPrograms ==
    {<<Assignment(<< <<v, x>> >>)>> : v \in ExpansionNames, x \in ExpansionValues}
    \cup {<<Simple("echo", <<a>>, <<>>)>> :
             a \in ExpansionArgs \cup MixedArgs \cup MalformedArgs \cup JoinedArgs}
    \cup {<<Simple("test", <<<<"-", "n">>, a>>, <<>>)>> :
             a \in {DollarForm(v) : v \in ExpansionNames}
                 \cup {BracedForm(v) : v \in ExpansionNames}}

\* the programs that only read variables or assign them by default
AssignDefaultPrograms ==
    {<<Simple("echo", <<a>>, <<>>)>> :
        a \in {DollarForm(v) : v \in ExpansionNames}
            \cup {ColonForm(v, OpAssign, d) : v \in ExpansionNames,
                                              d \in ExpansionOperands}
            \cup {BareForm(v, OpAssign, d) : v \in ExpansionNames,
                                             d \in ExpansionOperands}}

\* a name no program assigns
NeverSet == <<"u">>

\* commands with two arguments, the first of which may assign by default,
\* with and without a prefix assignment, and the assignments that set or
\* empty the variables beforehand
ArgumentPrograms ==
    {<<Assignment(<< <<v, x>> >>)>> : v \in ExpansionNames, x \in {<<>>, <<"y">>}}
    \cup {<<Simple(name, <<first, second>>, prefix)>> :
             name \in {"echo", "test"},
             first \in {ColonForm(<<"v">>, OpAssign, <<"x">>),
                        BareForm(<<"v">>, OpAssign, <<"x">>),
                        DollarForm(<<"_", "w", "1">>)},
             second \in {DollarForm(<<"v">>), DollarForm(NeverSet),
                         ColonForm(<<"_", "w", "1">>, OpError, <<"d">>),
                         <<"l">>},
             prefix \in {<<>>, << <<<<"_", "w", "1">>, <<"b">>>> >>}}

\* the files as the interpreter may find them
Targets == {<<"a">>, <<"b">>}

FileSystems ==
    {[exists |-> Targets, denied |-> {}],
     [exists |-> {}, denied |-> {}],
     [exists |-> Targets, denied |-> {<<"b">>}]}

\* the redirections of the programs: the three kinds that are applied and
\* one that is not, without a descriptor and with 1 and 2
RedirectionKinds == {"Input", "Output", "Append", "OutputDup"}

Redirections ==
    {Redirection(fd, kind, target) :
        fd \in {None, Some(1), Some(2)}, kind \in RedirectionKinds,
        target \in Targets}

\* one simple command, external or built-in, with up to two redirections
RedirectionPrograms ==
    {<<Redirected(c, rs)>> :
        c \in {CmdTest, CmdEchoWords, CmdTrue, CmdFalse},
        rs \in SeqsOf(Redirections, 0..2)}

\* Command::output of a process for a non-built-in name: it cannot be
\* spawned, or it runs and exits with some code and captured output, or it
\* runs and is ended by a signal, and then output.status.code() is None
SpawnFailed == [spawned |-> FALSE]

Exited(code, stdout, stderr) ==
    [spawned |-> TRUE, code |-> Some(code), stdout |-> stdout,
     stderr |-> stderr]

Signaled(stdout, stderr) ==
    [spawned |-> TRUE, code |-> None, stdout |-> stdout, stderr |-> stderr]

ProcessOutcomes ==
    {SpawnFailed,
     Exited(0, <<"o">>, <<>>),
     Exited(1, <<>>, <<"e">>),
     Exited(2, <<"o">>, <<>>)}

(***************************************************************************)
(* State                                                                   *)
(***************************************************************************)
\* the longest history of calls and returns that is followed
MaxLog == 14

VARIABLES
    variable_context,  \* Interpreter.variable_context
    exit_code,         \* Interpreter.exit_code
    program,           \* the commands of the Program given to the last execute
    stack,             \* the active handlers, innermost last
    ret,               \* Some(Result) just returned to the innermost handler
    result,            \* Some(Result) returned by the last execute, None while it runs
    log                \* the execute_command calls and returns of this execute

vars == <<variable_context, exit_code, program, stack, ret, result, log>>

\* the activation of a handler: its node, the node's path, where it stands,
\* its loop index and its last_result
Frame(type, node, path) ==
    [type |-> type, node |-> node, path |-> path, pc |-> "start", i |-> 0,
     last |-> ZeroStatus]

Top == stack[Len(stack)]

Returned == ret[1]

Idle == stack = <<>>

CallEvent(node, path, context) ==
    [ev |-> "call", type |-> node.type, path |-> path, context |-> context,
     res |-> None, output |-> None, cmd |-> None]

RetEvent(frame, res, context) ==
    [ev |-> "ret", type |-> frame.type, path |-> frame.path,
     context |-> context, res |-> Some(res), output |-> None, cmd |-> None]

\* a step inside execute: the interpreter's own fields other than the scope
\* are not touched
Inside(newStack, newRet, newContext, events) ==
    /\ Len(log) + Len(events) <= MaxLog
    /\ stack' = newStack
    /\ ret' = newRet
    /\ variable_context' = newContext
    /\ log' = log \o events
    /\ UNCHANGED <<exit_code, result, program>>

\* self.execute_command(child): the handler keeps its frame and waits
CallCommand(frame, child, childPath, context) ==
    Inside(Append(SubSeq(stack, 1, Len(stack) - 1) \o <<frame>>,
                  Frame(child.type, child, childPath)),
           None, context, <<CallEvent(child, childPath, context)>>)

\* self.execute_command_list(commands)
CallList(frame, commands, prefix, context) ==
    Inside(Append(SubSeq(stack, 1, Len(stack) - 1) \o <<frame>>,
                  Frame("list", commands, prefix)),
           None, context, <<>>)

\* the innermost handler returns res to its caller
ReturnWith(res, context) ==
    Inside(SubSeq(stack, 1, Len(stack) - 1), Some(res), context,
           IF Top.type = "list" THEN <<>> ELSE <<RetEvent(Top, res, context)>>)

\* the handler of an external command returns res; the event keeps the
\* StdCommand it built and what cmd.output() gave, if it came to that
ReturnFromProcess(cmd, output, res, context) ==
    Inside(SubSeq(stack, 1, Len(stack) - 1), Some(res), context,
           <<[RetEvent(Top, res, context) EXCEPT !.output = output,
                                                 !.cmd = Some(cmd)]>>)

Starting(type) == ~Idle /\ Top.type = type /\ Top.pc = "start" /\ ret = None

Resuming(type) == ~Idle /\ Top.type = type /\ Top.pc # "start" /\ ret # None

Init ==
    /\ variable_context = NewContext
    /\ exit_code = 0
    /\ program = <<>>
    /\ stack = <<>>
    /\ ret = None
    /\ result = None
    /\ log = <<>>

(***************************************************************************)
(* Interpreter::execute                                                    *)
(***************************************************************************)
\* a loop of execute that never breaks
ExecuteNeverBreaks(status) == FALSE

\* `if result.code != 0 { break; }`
ExecuteBreaks(status) == status.code # 0

\* execute returns Ok: self.exit_code = last_code
ExecuteFinish(last) ==
    /\ stack' = <<>>
    /\ ret' = None
    /\ exit_code' = last.code
    /\ result' = Some(Ok(last))

\* an execute that records a failure as exit code 1
ExecuteFailSetsCode(error) ==
    /\ stack' = <<>>
    /\ ret' = None
    /\ exit_code' = 1
    /\ result' = Some(error)

\* the `?` in execute: the error leaves execute, exit_code is not assigned
ExecuteFail(error) ==
    /\ stack' = <<>>
    /\ ret' = None
    /\ exit_code' = exit_code
    /\ result' = Some(error)

\* execute(program) is called on the idle interpreter and runs up to its
\* first execute_command, or returns at once for an empty program
Execute(p) ==
    /\ program' = p
    /\ variable_context' = variable_context
    /\ IF Len(p) = 0
       THEN ExecuteFinish(ZeroStatus) /\ log' = <<>>
       ELSE /\ stack' = <<[Frame("execute", p, <<>>) EXCEPT !.pc = "loop", !.i = 1],
                          Frame(p[1].type, p[1], <<1>>)>>
            /\ ret' = None
            /\ result' = None
            /\ log' = <<CallEvent(p[1], <<1>>, variable_context)>>
            /\ exit_code' = exit_code

ExecuteCall ==
    /\ Idle
    /\ result = None
    /\ \E p \in Programs : Execute(p)

\* execute is called with a program that is one assignment or one simple
\* command with a parameter expansion among its arguments
ExecuteExpansion ==
    /\ Idle
    /\ result = None
    /\ \E p \in ExpansionPrograms : Execute(p)

\* a top-level command has returned to the loop of execute
ExecuteLoop ==
    /\ Resuming("execute")
    /\ UNCHANGED <<variable_context, program>>
    /\ IF ~Returned.ok
       THEN ExecuteFail(Returned) /\ log' = log
       ELSE IF ExecuteBreaks(Returned.val) \/ Top.i >= Len(Top.node)
       THEN ExecuteFinish(Returned.val) /\ log' = log
       ELSE /\ Len(log) < MaxLog
            /\ stack' = <<[Top EXCEPT !.i = @ + 1, !.last = Returned.val],
                          Frame(Top.node[Top.i + 1].type, Top.node[Top.i + 1],
                                <<Top.i + 1>>)>>
            /\ ret' = None
            /\ log' = Append(log, CallEvent(Top.node[Top.i + 1], <<Top.i + 1>>,
                                            variable_context))
            /\ UNCHANGED <<exit_code, result>>

\* the caller of execute takes the returned Result; an ExitStatus is not
\* retained beyond the call that produced it
TakeResult ==
    /\ Idle
    /\ result # None
    /\ result' = None
    /\ program' = <<>>
    /\ log' = <<>>
    /\ UNCHANGED <<variable_context, exit_code, stack, ret>>

(***************************************************************************)
(* execute_command: the leaf arms                                          *)
(***************************************************************************)
\* a dispatch that takes a non-zero exit code for a failure to run
NonZeroIsError(name, outcome, span) ==
    IF outcome.spawned /\ outcome.code = Some(0)
    THEN Ok(ExitStatus(0, outcome.stdout, outcome.stderr))
    ELSE Err(CommandNotFound(name, span))

\* `if let Ok(output) = cmd.output()`: the ExitStatus of a process that ran,
\* CommandNotFound for one that could not be spawned
SpawnResult(name, outcome, span) ==
    IF outcome.spawned
    THEN Ok(ExitStatus(UnwrapOr(outcome.code, -1), outcome.stdout,
                       outcome.stderr))
    ELSE Err(CommandNotFound(name, span))

(***************************************************************************)
(* apply_redirections.  A StdCommand holds what each standard stream of    *)
(* the process will be: nothing set, a pipe, or a file.  The files are     *)
(* outside the interpreter: fs.exists are the paths that name a file and   *)
(* fs.denied the paths that cannot be opened or created.  cmd.opened lists *)
(* the files the interpreter has opened or created, in order, and          *)
(* cmd.failed the one it could not open, if any.                           *)
(***************************************************************************)
StdioUnset == [tag |-> "unset"]

StdioPiped == [tag |-> "piped"]

StdioFile(target, mode) == [tag |-> "file", target |-> target, mode |-> mode]

\* StdCommand::new(name)
NewCommand ==
    [stdin |-> StdioUnset, stdout |-> StdioUnset, stderr |-> StdioUnset,
     opened |-> <<>>, failed |-> None]

\* a failure to open that is reported as a command that was not found
InputFailureAsNotFound(target) == CommandNotFound(target, DummySpan)

CannotOpenForInput(target) ==
    SyntaxError(<<"Cannot open ">> \o target \o <<" for input">>, DummySpan)

CannotCreate(target) == SyntaxError(<<"Cannot create ">> \o target, DummySpan)

CannotOpenForAppend(target) ==
    SyntaxError(<<"Cannot open ">> \o target \o <<" for append">>, DummySpan)

\* the loop of apply_redirections from the i-th redirection on
RECURSIVE ApplyFrom(_, _, _, _)
ApplyFrom(cmd, fs, redirections, i) ==
    IF i > Len(redirections) THEN [ok |-> TRUE, cmd |-> cmd]
    ELSE LET redirection == redirections[i]
             target      == redirection.target
             created     == [fs EXCEPT !.exists = @ \cup {target}]
         IN  CASE redirection.kind = "Input" ->
                    IF target \in fs.exists \ fs.denied
                    THEN ApplyFrom([cmd EXCEPT
                                      !.stdin = StdioFile(target, "read"),
                                      !.opened = Append(@, <<target, "read">>)],
                                   fs, redirections, i + 1)
                    ELSE [ok |-> FALSE,
                          cmd |-> [cmd EXCEPT !.failed = Some(<<target, "read">>)],
                          err |-> CannotOpenForInput(target)]
               [] redirection.kind = "Output" ->
                    IF target \notin fs.denied
                    THEN ApplyFrom([cmd EXCEPT
                                      !.stdout = StdioFile(target, "create"),
                                      !.opened = Append(@, <<target, "create">>)],
                                   created, redirections, i + 1)
                    ELSE [ok |-> FALSE,
                          cmd |-> [cmd EXCEPT !.failed = Some(<<target, "create">>)],
                          err |-> CannotCreate(target)]
               [] redirection.kind = "Append" ->
                    IF target \notin fs.denied
                    THEN ApplyFrom([cmd EXCEPT
                                      !.stdout = StdioFile(target, "append"),
                                      !.opened = Append(@, <<target, "append">>)],
                                   created, redirections, i + 1)
                    ELSE [ok |-> FALSE,
                          cmd |-> [cmd EXCEPT !.failed = Some(<<target, "append">>)],
                          err |-> CannotOpenForAppend(target)]
               [] OTHER -> ApplyFrom(cmd, fs, redirections, i + 1)

apply_redirections(cmd, fs, redirections) == ApplyFrom(cmd, fs, redirections, 1)

\* "Default to piped if no redirections specified": stdout unless a
\* redirection is of kind Output, Append or Clobber, stderr unless one is an
\* OutputDup with fd Some(2)
DefaultToPiped(cmd, redirections) ==
    LET claimsStdout ==
            \E i \in 1..Len(redirections) :
                redirections[i].kind \in {"Output", "Append", "Clobber"}
        claimsStderr ==
            \E i \in 1..Len(redirections) :
                /\ redirections[i].kind = "OutputDup"
                /\ redirections[i].fd = Some(2)
    IN  [cmd EXCEPT !.stdout = IF claimsStdout THEN @ ELSE StdioPiped,
                    !.stderr = IF claimsStderr THEN @ ELSE StdioPiped]

\* execute_simple_command with the given outcomes of cmd.output()
SimpleCommand(outcomes) ==
    /\ Starting("Simple")
    /\ LET node     == Top.node
           span     == SpanOf(Top.path)
           assigned == execute_assignments(variable_context, node.assignments)
           expanded == expand_arguments(assigned, node.args, span)
       IN  IF ~expanded.res.ok
           THEN ReturnWith(expanded.res, expanded.context)
           ELSE IF node.name \in BuiltinNames
           THEN ReturnWith(Ok(BuiltinStatus(node.name, expanded.res.val)),
                           expanded.context)
           ELSE \E fs \in FileSystems, outcome \in outcomes :
                    LET applied == apply_redirections(NewCommand, fs,
                                                      node.redirections)
                    IN  IF ~applied.ok
                        THEN ReturnFromProcess(applied.cmd, None,
                                               Err(applied.err),
                                               expanded.context)
                        ELSE ReturnFromProcess(
                                 DefaultToPiped(applied.cmd, node.redirections),
                                 Some(outcome),
                                 SpawnResult(node.name, outcome, span),
                                 expanded.context)

\* execute_simple_command
execute_simple_command == SimpleCommand(ProcessOutcomes)

\* execute_simple_command when the process is ended by a signal
execute_simple_command_signaled == SimpleCommand({Signaled(<<"o">>, <<>>)})

\* the Command::Assignment arm of execute_command
execute_assignment ==
    /\ Starting("Assignment")
    /\ ReturnWith(Ok(ZeroStatus),
                  execute_assignments(variable_context, Top.node.assignments))

\* an execute_function_definition that evaluates the body it is given
FunctionDefinitionRunsBody ==
    /\ Starting("Function") \/ Resuming("Function")
    /\ IF Top.pc = "start"
       THEN CallCommand([Top EXCEPT !.pc = "body"], Top.node.body,
                        Top.path \o <<SelInner>>, variable_context)
       ELSE ReturnWith(Returned, variable_context)

\* execute_function_definition
execute_function_definition ==
    /\ Starting("Function")
    /\ ReturnWith(Ok(ZeroStatus), variable_context)

(***************************************************************************)
(* The handlers that run a list of commands one after the other            *)
(***************************************************************************)
\* a list loop that breaks at a non-zero exit code, as the loop of execute does
StopsAfterFailure(status, i, commands) == i < Len(commands) /\ status.code = 0

\* `for command in commands` without a break: the loop goes on while
\* commands are left, whatever the last status was
ContinuesAfter(status, i, commands) == i < Len(commands)

\* a last_result that keeps the first non-zero status (pipefail)
KeepsFirstFailure(previous, status) ==
    IF previous.code # 0 THEN previous ELSE status

\* a last_result that collects the output of every command
Accumulated(previous, status) ==
    [status EXCEPT !.stdout = previous.stdout \o @, !.stderr = previous.stderr \o @]

\* `last_result = self.execute_command(command)?`: the previous value is
\* overwritten
LastResult(previous, status) == status

\* the loop of execute_pipeline, execute_sequence and execute_command_list
RunCommands(commands) ==
    IF Top.pc = "start"
    THEN IF Len(commands) = 0
         THEN ReturnWith(Ok(Top.last), variable_context)
         ELSE CallCommand([Top EXCEPT !.pc = "loop", !.i = 1], commands[1],
                          Top.path \o <<1>>, variable_context)
    ELSE IF ~Returned.ok
         THEN ReturnWith(Returned, variable_context)
         ELSE LET last_result == LastResult(Top.last, Returned.val)
              IN  IF ContinuesAfter(Returned.val, Top.i, commands)
                  THEN CallCommand([Top EXCEPT !.i = @ + 1, !.last = last_result],
                                   commands[Top.i + 1],
                                   Top.path \o <<Top.i + 1>>, variable_context)
                  ELSE ReturnWith(Ok(last_result), variable_context)

execute_pipeline ==
    /\ Starting("Pipeline") \/ Resuming("Pipeline")
    /\ RunCommands(Top.node.commands)

execute_sequence ==
    /\ Starting("Sequence") \/ Resuming("Sequence")
    /\ RunCommands(Top.node.commands)

execute_command_list ==
    /\ Starting("list") \/ Resuming("list")
    /\ RunCommands(Top.node)

\* a handler whose last expression is self.execute_command_list(commands)
TailCallList(commands, prefix) ==
    IF Top.pc = "start"
    THEN CallList([Top EXCEPT !.pc = "body"], commands, prefix, variable_context)
    ELSE ReturnWith(Returned, variable_context)

execute_subshell ==
    /\ Starting("Subshell") \/ Resuming("Subshell")
    /\ TailCallList(Top.node.commands, Top.path)

execute_brace_group ==
    /\ Starting("BraceGroup") \/ Resuming("BraceGroup")
    /\ TailCallList(Top.node.commands, Top.path)

(***************************************************************************)
(* The control-flow handlers                                               *)
(***************************************************************************)
\* an execute_and_if that runs the right side whatever the left exit code
AndIfAlwaysRight(left) == left.ok

\* execute_and_if: `?` on the left result, then `if left_result.code == 0`
AndIfRunsRight(left) == left.ok /\ left.val.code = 0

execute_and_if ==
    /\ Starting("AndIf") \/ Resuming("AndIf")
    /\ IF Top.pc = "start"
       THEN CallCommand([Top EXCEPT !.pc = "left"], Top.node.left,
                        Top.path \o <<SelLeft>>, variable_context)
       ELSE IF Top.pc = "left" /\ AndIfRunsRight(Returned)
       THEN CallCommand([Top EXCEPT !.pc = "right"], Top.node.right,
                        Top.path \o <<SelRight>>, variable_context)
       ELSE ReturnWith(Returned, variable_context)

\* an execute_or_if with the test of execute_and_if
OrIfLikeAndIf(left) == left.ok /\ left.val.code = 0

\* an execute_or_if that takes a ShexError of the left side for a failure
OrIfRecovers(left) == ~left.ok \/ left.val.code # 0

\* execute_or_if: `?` on the left result, then the else of
\* `if left_result.code == 0`
OrIfRunsRight(left) == left.ok /\ left.val.code # 0

execute_or_if ==
    /\ Starting("OrIf") \/ Resuming("OrIf")
    /\ IF Top.pc = "start"
       THEN CallCommand([Top EXCEPT !.pc = "left"], Top.node.left,
                        Top.path \o <<SelLeft>>, variable_context)
       ELSE IF Top.pc = "left" /\ OrIfRunsRight(Returned)
       THEN CallCommand([Top EXCEPT !.pc = "right"], Top.node.right,
                        Top.path \o <<SelRight>>, variable_context)
       ELSE ReturnWith(Returned, variable_context)

\* an execute_background that hands on what the wrapped command returned
BackgroundPassesOn(inner) == inner

\* execute_background: the wrapped result is dropped unless it is an error
BackgroundResult(inner) == IF inner.ok THEN Ok(ZeroStatus) ELSE inner

execute_background ==
    /\ Starting("Background") \/ Resuming("Background")
    /\ IF Top.pc = "start"
       THEN CallCommand([Top EXCEPT !.pc = "wait"], Top.node.command,
                        Top.path \o <<SelInner>>, variable_context)
       ELSE ReturnWith(BackgroundResult(Returned), variable_context)

\* an execute_if that takes the body of a condition that exited non-zero
IfTakesBodyOnFailure(status) == status.code # 0

\* `if condition_result.code == 0` / `if elif_result.code == 0`
IfTakesBody(status) == status.code = 0

\* execute_if from the elif clause after clause i on: the next elif
\* condition, else the else body, else success
IfAfterClause(i) ==
    LET node == Top.node
    IN  IF i < Len(node.elif_clauses)
        THEN CallCommand([Top EXCEPT !.pc = "elif", !.i = i + 1],
                         node.elif_clauses[i + 1][1],
                         Top.path \o <<SelElif, i + 1, SelCondition>>,
                         variable_context)
        ELSE IF IsSome(node.else_body)
        THEN CallList([Top EXCEPT !.pc = "body"], Unwrap(node.else_body),
                      Top.path \o <<SelElse>>, variable_context)
        ELSE ReturnWith(Ok(ZeroStatus), variable_context)

execute_if ==
    /\ Starting("If") \/ Resuming("If")
    /\ LET node == Top.node
       IN  CASE Top.pc = "start" ->
                  CallCommand([Top EXCEPT !.pc = "cond"], node.condition,
                              Top.path \o <<SelCondition>>, variable_context)
             [] Top.pc = "cond" ->
                  IF ~Returned.ok THEN ReturnWith(Returned, variable_context)
                  ELSE IF IfTakesBody(Returned.val)
                  THEN CallList([Top EXCEPT !.pc = "body"], node.then_body,
                                Top.path \o <<SelBody>>, variable_context)
                  ELSE IfAfterClause(0)
             [] Top.pc = "elif" ->
                  IF ~Returned.ok THEN ReturnWith(Returned, variable_context)
                  ELSE IF IfTakesBody(Returned.val)
                  THEN CallList([Top EXCEPT !.pc = "body"],
                                node.elif_clauses[Top.i][2],
                                Top.path \o <<SelElif, Top.i, SelBody>>,
                                variable_context)
                  ELSE IfAfterClause(Top.i)
             [] Top.pc = "body" -> ReturnWith(Returned, variable_context)

\* an execute_while that ends only at exit code 1
WhileBreaksAtOne(status) == status.code = 1

\* execute_while: `if condition_result.code != 0 { break; }`
WhileBreaks(status) == status.code # 0

\* an execute_until with the test of execute_while
UntilLikeWhile(status) == status.code # 0

\* execute_until: `if condition_result.code == 0 { break; }`
UntilBreaks(status) == status.code = 0

\* the value of `Ok(last_result)` after the loop
LoopResult(last) == Ok(last)

\* a loop that also ends when its body exits non-zero
RunLoopWhileBodySucceeds(breaks) ==
    CASE Top.pc = "start" ->
           CallCommand([Top EXCEPT !.pc = "cond"], Top.node.condition,
                       Top.path \o <<SelCondition>>, variable_context)
      [] Top.pc = "cond" ->
           IF ~Returned.ok THEN ReturnWith(Returned, variable_context)
           ELSE IF breaks THEN ReturnWith(LoopResult(Top.last), variable_context)
           ELSE CallList([Top EXCEPT !.pc = "body"], Top.node.body,
                         Top.path \o <<SelBody>>, variable_context)
      [] Top.pc = "body" ->
           IF ~Returned.ok \/ Returned.val.code # 0
           THEN ReturnWith(Returned, variable_context)
           ELSE CallCommand([Top EXCEPT !.pc = "cond", !.last = Returned.val],
                            Top.node.condition, Top.path \o <<SelCondition>>,
                            variable_context)

\* the loop shared by execute_while and execute_until
RunLoop(breaks) ==
    CASE Top.pc = "start" ->
           CallCommand([Top EXCEPT !.pc = "cond"], Top.node.condition,
                       Top.path \o <<SelCondition>>, variable_context)
      [] Top.pc = "cond" ->
           IF ~Returned.ok THEN ReturnWith(Returned, variable_context)
           ELSE IF breaks THEN ReturnWith(LoopResult(Top.last), variable_context)
           ELSE CallList([Top EXCEPT !.pc = "body"], Top.node.body,
                         Top.path \o <<SelBody>>, variable_context)
      [] Top.pc = "body" ->
           IF ~Returned.ok THEN ReturnWith(Returned, variable_context)
           ELSE CallCommand([Top EXCEPT !.pc = "cond", !.last = Returned.val],
                            Top.node.condition, Top.path \o <<SelCondition>>,
                            variable_context)

execute_while ==
    /\ Starting("While") \/ Resuming("While")
    /\ RunLoop(Returned.ok /\ WhileBreaks(Returned.val))

execute_until ==
    /\ Starting("Until") \/ Resuming("Until")
    /\ RunLoop(Returned.ok /\ UntilBreaks(Returned.val))

\* an execute_for that iterates over nothing
WordsIgnored(words) == <<>>

\* `if let Some(words) = words { words.clone() } else { vec![] }`
WordList(words) == IF IsSome(words) THEN Unwrap(words) ELSE <<>>

\* execute_for from the word after word i on
ForAfterWord(i, last) ==
    LET word_list == WordList(Top.node.words)
    IN  IF i < Len(word_list)
        THEN CallList([Top EXCEPT !.pc = "body", !.i = i + 1, !.last = last],
                      Top.node.body, Top.path \o <<SelBody>>,
                      CtxSet(variable_context, Top.node.variable, word_list[i + 1]))
        ELSE ReturnWith(Ok(last), variable_context)

execute_for ==
    /\ Starting("For") \/ Resuming("For")
    /\ IF Top.pc = "start" THEN ForAfterWord(0, Top.last)
       ELSE IF ~Returned.ok THEN ReturnWith(Returned, variable_context)
       ELSE ForAfterWord(Top.i, Returned.val)

\* execute_case: the word is expanded with Span::dummy()
execute_case ==
    /\ Starting("Case") \/ Resuming("Case")
    /\ IF Top.pc = "start"
       THEN LET expanded == expand_single_argument(variable_context,
                                                   Top.node.word, DummySpan)
                arm == FirstMatchingArm(Top.node.arms, expanded.res.val)
            IN  IF ~expanded.res.ok
                THEN ReturnWith(expanded.res, expanded.context)
                ELSE IF arm = 0
                THEN ReturnWith(Ok(ZeroStatus), expanded.context)
                ELSE CallList([Top EXCEPT !.pc = "body"],
                              Top.node.arms[arm].commands, Top.path \o <<arm>>,
                              expanded.context)
       ELSE ReturnWith(Returned, variable_context)

Next ==
    \/ ExecuteCall
    \/ ExecuteLoop
    \/ TakeResult
    \/ execute_simple_command
    \/ execute_assignment
    \/ execute_pipeline
    \/ execute_and_if
    \/ execute_or_if
    \/ execute_sequence
    \/ execute_background
    \/ execute_if
    \/ execute_while
    \/ execute_until
    \/ execute_for
    \/ execute_case
    \/ execute_function_definition
    \/ execute_subshell
    \/ execute_brace_group
    \/ execute_command_list

Spec == Init /\ [][Next]_vars

\* one interpreter given expansion programs, one execute call after the other
NextExpansion ==
    \/ ExecuteExpansion
    \/ ExecuteLoop
    \/ TakeResult
    \/ execute_simple_command
    \/ execute_assignment

SpecExpansion == Init /\ [][NextExpansion]_vars

\* execute is called with one echo of a variable or of an assign-default form
ExecuteAssignDefault ==
    /\ Idle
    /\ result = None
    /\ \E p \in AssignDefaultPrograms : Execute(p)

\* one interpreter whose scope changes through assign-default forms only
NextAssignDefault ==
    \/ ExecuteAssignDefault
    \/ ExecuteLoop
    \/ TakeResult
    \/ execute_simple_command

SpecAssignDefault == Init /\ [][NextAssignDefault]_vars

\* execute is called with one assignment or one command of two arguments
ExecuteArguments ==
    /\ Idle
    /\ result = None
    /\ \E p \in ArgumentPrograms : Execute(p)

NextArguments ==
    \/ ExecuteArguments
    \/ ExecuteLoop
    \/ TakeResult
    \/ execute_simple_command
    \/ execute_assignment

SpecArguments == Init /\ [][NextArguments]_vars

\* execute is called with one simple command that carries redirections
ExecuteRedirection ==
    /\ Idle
    /\ result = None
    /\ \E p \in RedirectionPrograms : Execute(p)

NextRedirection ==
    \/ ExecuteRedirection
    \/ ExecuteLoop
    \/ TakeResult
    \/ execute_simple_command

SpecRedirection == Init /\ [][NextRedirection]_vars

(***************************************************************************)
(* shex-cli.  One run of the binary: the script is read, lexed and parsed, *)
(* which gives a program or fails; the program is evaluated by a new       *)
(* Interpreter; main prints and calls process::exit.  The last event of    *)
(* log is then what the run showed: the exit status and what it printed.   *)
(***************************************************************************)
\* the programs the parser hands over
CliAtoms == {CmdTrue, CmdFalse, CmdTest, CmdEchoWords, CmdEchoX}

CliPrograms ==
    {<<>>}
    \cup {<<c>> : c \in CliAtoms}
    \cup {<<c, d>> : c \in CliAtoms, d \in CliAtoms}
    \cup {<<Redirected(CmdTest, <<Redirection(None, "Input", <<"a">>)>>)>>}

\* std::fs::read_to_string fails in execute_file
ReadError == [kind |-> "Io", detail |-> <<"read_to_string">>, span |-> DummySpan]

\* the errors before evaluation: the file cannot be read, Parser::new
\* rejects a character, parse rejects a token
EarlyErrors ==
    {ReadError,
     SyntaxError(<<"Unexpected character">>, Span(0, 1)),
     SyntaxError(<<"Unexpected token">>, Span(1, 2))}

\* what process::exit(code) gives the parent process: the low eight bits
ProcessExit(code) == code % 256

\* a main that exits with 0 whatever execute_string returned
ErrorExitsZero(outcome) ==
    [ev |-> "exit", status |-> 0, stdout |-> <<>>,
     stderr |-> IF outcome.ok THEN <<>> ELSE <<outcome.err>>]

\* main after execute_string or execute_file returned: Ok(status) has been
\* printed by execute_string and its code is the exit code, Err(e) is
\* printed to standard error and the exit code is 1
CliOutcome(outcome) ==
    IF outcome.ok
    THEN [ev |-> "exit", status |-> ProcessExit(outcome.val.code),
          stdout |-> outcome.val.stdout, stderr |-> outcome.val.stderr]
    ELSE [ev |-> "exit", status |-> ProcessExit(1), stdout |-> <<>>,
          stderr |-> <<outcome.err>>]

CliStarted == Len(log) > 0 \/ result # None

CliExited == Len(log) > 0 /\ log[Len(log)].ev = "exit"

\* the run fails before there is a program
CliFailsEarly ==
    /\ ~CliStarted
    /\ \E e \in EarlyErrors : log' = <<CliOutcome(Err(e))>>
    /\ UNCHANGED <<variable_context, exit_code, program, stack, ret, result>>

\* execute_string: the program is parsed and given to a new Interpreter
CliExecute ==
    /\ ~CliStarted
    /\ \E p \in CliPrograms : Execute(p)

\* execute has returned; execute_string prints, main exits
CliExit ==
    /\ Idle
    /\ result # None
    /\ ~CliExited
    /\ log' = Append(log, CliOutcome(Unwrap(result)))
    /\ UNCHANGED <<variable_context, exit_code, program, stack, ret, result>>

NextCli ==
    \/ CliFailsEarly
    \/ CliExecute
    \/ ExecuteLoop
    \/ CliExit
    \/ execute_simple_command
    \/ execute_simple_command_signaled

SpecCli == Init /\ [][NextCli]_vars

(***************************************************************************)
(* SourceMap on its own: a source of up to MaxSource characters, one of    *)
(* them two bytes wide, and the position of one of its byte offsets        *)
(***************************************************************************)
MaxSource == 3

SourceChars == {"a", "\n", "é"}

\* char::len_utf8
ByteWidth(ch) == IF ch = "é" THEN 2 ELSE 1

RECURSIVE ByteLen(_)
ByteLen(source) ==
    IF source = <<>> THEN 0
    ELSE ByteLen(SubSeq(source, 1, Len(source) - 1))
            + ByteWidth(source[Len(source)])

\* char_indices: the byte offset of the i-th character
ByteOffset(source, i) == ByteLen(SubSeq(source, 1, i - 1))

\* SourceMap::new: 0, then the offset after every newline
RECURSIVE LineStartsFrom(_, _)
LineStartsFrom(source, i) ==
    IF i > Len(source) THEN <<>>
    ELSE (IF source[i] = "\n" THEN <<ByteOffset(source, i) + 1>> ELSE <<>>)
            \o LineStartsFrom(source, i + 1)

SourceMapNew(source) == <<0>> \o LineStartsFrom(source, 1)

\* slice::binary_search on a strictly increasing Vec: Ok(index) of the
\* element, or Err(index) where it would be inserted, indices from 0
BinarySearch(sorted, x) ==
    IF \E i \in 1..Len(sorted) : sorted[i] = x
    THEN [found |-> TRUE,
          index |-> (CHOOSE i \in 1..Len(sorted) : sorted[i] = x) - 1]
    ELSE [found |-> FALSE,
          index |-> Cardinality({i \in 1..Len(sorted) : sorted[i] < x})]

Position(line, column) == [line |-> line, column |-> column]

\* a position that counts columns from the line start without the + 1
PositionFromZero(line_starts, byte_offset) ==
    LET searched == BinarySearch(line_starts, byte_offset)
    IN  IF searched.found THEN Position(searched.index + 1, 0)
        ELSE Position(searched.index,
                      byte_offset - line_starts[searched.index])

\* SourceMap::position; line_starts[line - 1] of the code is the element
\* at searched.index here, where indices start at 1
position(line_starts, byte_offset) ==
    LET searched == BinarySearch(line_starts, byte_offset)
    IN  IF searched.found THEN Position(searched.index + 1, 1)
        ELSE Position(searched.index,
                      byte_offset - line_starts[searched.index] + 1)

\* ShexError::command_not_found with the line and the column it stores
command_not_found(command, span, line_starts) ==
    LET pos == position(line_starts, span.start)
    IN  [kind |-> "CommandNotFound", detail |-> command, span |-> span,
         line |-> pos.line, column |-> pos.column]

Sources == UNION {[1..n -> SourceChars] : n \in 0..MaxSource}

\* SourceMap::new(source).position(offset), and an error built from a span
\* that starts at the offset
LocatePosition ==
    /\ \E source \in Sources :
          \E offset \in 0..ByteLen(source) :
              LET source_map == SourceMapNew(source)
              IN  log' = <<[ev |-> "position", source |-> source,
                            offset |-> offset,
                            position |-> position(source_map, offset),
                            error |-> command_not_found(
                                          <<"c">>, Span(offset, offset + 1),
                                          source_map)]>>
    /\ UNCHANGED <<variable_context, exit_code, program, stack, ret, result>>

NextSourceMap == LocatePosition

SpecSourceMap == Init /\ [][NextSourceMap]_vars

(***************************************************************************)
(* parse_parameter_expansion on its own: the last text given to it, with   *)
(* the parts the text was put together from, and the request it returned   *)
(***************************************************************************)
ParserNames == ExpansionNames \cup {<<"V", "9">>}

ParserOperands ==
    ExpansionOperands
        \cup {<<"x", "-", "y">>, <<"?">>, <<"+", "z">>, <<":">>,
              <<"a", ":", "-", "b">>}

\* parse_parameter_expansion(text) for a text ${ N op P } or ${ N : op P }
ParseExpansion ==
    /\ \E name \in ParserNames, op \in Operators, operand \in ParserOperands,
          colon \in BOOLEAN :
          LET text == IF colon THEN ColonForm(name, op, operand)
                      ELSE BareForm(name, op, operand)
          IN  log' = <<[ev |-> "parse_parameter_expansion", name |-> name,
                        op |-> op, operand |-> operand, colon |-> colon,
                        text |-> text,
                        request |-> parse_parameter_expansion(text)]>>
    /\ UNCHANGED <<variable_context, exit_code, program, stack, ret, result>>

NextParser == ParseExpansion

SpecParser == Init /\ [][NextParser]_vars

(***************************************************************************)
(* VariableContext and resolve_expansion on their own: one context, made   *)
(* a child by with_parent up to MaxDepth times, and the last operation on  *)
(* it, kept in log with the context before it and after it                 *)
(***************************************************************************)
MaxDepth == 1

ContextValues == {<<>>, <<"x">>}

ExpansionModes ==
    {"Normal", "DefaultValue", "AssignDefault", "ErrorIfUnset",
     "AlternativeValue"}

Requests ==
    {Request(v, mode, parameter, check_unset) :
        v \in ExpansionNames, mode \in ExpansionModes,
        parameter \in {None} \cup {Some(x) : x \in ContextValues},
        check_unset \in BOOLEAN}

\* the contexts import_from reads: without bindings, with local bindings,
\* and children whose parent binds a name they do not bind themselves
OtherContexts ==
    {NewContext,
     CtxSet(NewContext, <<"v">>, <<"x">>),
     CtxSet(CtxSet(NewContext, <<"v">>, <<>>), <<"_", "w", "1">>, <<"x">>),
     WithParent(CtxSet(NewContext, <<"v">>, <<"x">>)),
     CtxSet(WithParent(CtxSet(NewContext, <<"v">>, <<"x">>)),
            <<"_", "w", "1">>, <<>>)}

RECURSIVE Depth(_)
Depth(context) ==
    IF IsSome(context.parent) THEN 1 + Depth(Unwrap(context.parent)) ELSE 0

\* child = VariableContext::with_parent(context)
ContextWithParent ==
    /\ Depth(variable_context) < MaxDepth
    /\ variable_context' = WithParent(variable_context)
    /\ log' = <<[ev |-> "with_parent", before |-> variable_context,
                 after |-> variable_context']>>
    /\ UNCHANGED <<exit_code, program, stack, ret, result>>

\* context.set(name, value)
ContextSet ==
    /\ \E name \in ExpansionNames, value \in ContextValues :
          /\ variable_context' = CtxSet(variable_context, name, value)
          /\ log' = <<[ev |-> "set", before |-> variable_context,
                       after |-> variable_context',
                       name |-> name, value |-> value]>>
    /\ UNCHANGED <<exit_code, program, stack, ret, result>>

\* resolve_expansion(&mut context, &request)
ContextResolve ==
    /\ \E request \in Requests :
          /\ variable_context' = ResolveContext(variable_context, request)
          /\ log' = <<[ev |-> "resolve_expansion", before |-> variable_context,
                       after |-> variable_context', request |-> request,
                       res |-> ResolveResult(variable_context, request)]>>
    /\ UNCHANGED <<exit_code, program, stack, ret, result>>

\* context.import_from(&other)
ContextImport ==
    /\ \E other \in OtherContexts :
          /\ variable_context' = import_from(variable_context, other)
          /\ log' = <<[ev |-> "import_from", before |-> variable_context,
                       after |-> variable_context', other |-> other]>>
    /\ UNCHANGED <<exit_code, program, stack, ret, result>>

NextContext ==
    \/ ContextWithParent
    \/ ContextSet
    \/ ContextResolve
    \/ ContextImport

SpecContext == Init /\ [][NextContext]_vars

(***************************************************************************)
(* Reading the history                                                     *)
(***************************************************************************)
\* the node of the running program at a path
RECURSIVE Descend(_, _)
Descend(node, sels) ==
    IF Len(sels) = 0 THEN node
    ELSE CASE node.type \in {"AndIf", "OrIf"} ->
                Descend(IF sels[1] = SelLeft THEN node.left ELSE node.right,
                        Tail(sels))
           [] node.type \in {"Sequence", "Pipeline", "Subshell", "BraceGroup"} ->
                Descend(node.commands[sels[1]], Tail(sels))
           [] node.type = "Background" -> Descend(node.command, Tail(sels))
           [] node.type = "Function" -> Descend(node.body, Tail(sels))
           [] node.type \in {"While", "Until"} ->
                IF sels[1] = SelCondition
                THEN Descend(node.condition, Tail(sels))
                ELSE Descend(node.body[sels[2]], SubSeq(sels, 3, Len(sels)))
           [] node.type = "For" ->
                Descend(node.body[sels[2]], SubSeq(sels, 3, Len(sels)))
           [] node.type = "Case" ->
                Descend(node.arms[sels[1]].commands[sels[2]],
                        SubSeq(sels, 3, Len(sels)))
           [] node.type = "If" ->
                IF sels[1] = SelCondition
                THEN Descend(node.condition, Tail(sels))
                ELSE IF sels[1] = SelBody
                THEN Descend(node.then_body[sels[2]], SubSeq(sels, 3, Len(sels)))
                ELSE IF sels[1] = SelElse
                THEN Descend(Unwrap(node.else_body)[sels[2]],
                             SubSeq(sels, 3, Len(sels)))
                ELSE IF sels[3] = SelCondition
                THEN Descend(node.elif_clauses[sels[2]][1],
                             SubSeq(sels, 4, Len(sels)))
                ELSE Descend(node.elif_clauses[sels[2]][2][sels[4]],
                             SubSeq(sels, 5, Len(sels)))

NodeAt(path) == Descend(program[path[1]], Tail(path))

\* execute has returned and its Result has not been taken yet
Finished == Idle /\ result # None

IsCall(k) == log[k].ev = "call"

IsRet(k) == log[k].ev = "ret"

\* the Result a return event carries
ResOf(k) == log[k].res[1]

IsOkRet(k) == IsRet(k) /\ ResOf(k).ok

IsErrRet(k) == IsRet(k) /\ ~ResOf(k).ok

\* the call that the return at k answers
CallOf(k) ==
    CHOOSE c \in 1..(k - 1) :
        /\ IsCall(c) /\ log[c].path = log[k].path
        /\ \A d \in (c + 1)..(k - 1) : ~(IsCall(d) /\ log[d].path = log[k].path)

\* the events strictly between the call and the return at k
Within(k) == (CallOf(k) + 1)..(k - 1)

IsPrefix(p, q) == Len(p) <= Len(q) /\ SubSeq(q, 1, Len(p)) = p

\* the names the programs use
VarNames == {VarX, VarY}

SameBindings(c1, c2) == \A n \in VarNames : CtxGet(c1, n) = CtxGet(c2, n)

\* every event names the type of the node at its path, and every return
\* answers a call
LogWellFormed ==
    \A k \in 1..Len(log) :
        /\ NodeAt(log[k].path).type = log[k].type
        /\ IsRet(k) => \E c \in 1..(k - 1) : IsCall(c) /\ log[c].path = log[k].path

(***************************************************************************)
(* Top-level evaluation                                                    *)
(***************************************************************************)
IsTopLevel(e) == Len(e.path) = 1

TopCalls == SelectSeq(log, LAMBDA e : e.ev = "call" /\ IsTopLevel(e))

TopRets == SelectSeq(log, LAMBDA e : e.ev = "ret" /\ IsTopLevel(e))

\* C1: execute evaluates the top-level commands in list order and stops
\* after the first one whose exit code is non-zero: every top-level command
\* that is evaluated follows commands that all exited 0, nothing of a later
\* command is evaluated, and the ExitStatus execute returns is that of the
\* last command evaluated, which exited non-zero or is the last of the
\* program; an empty program yields code 0 with empty stdout and stderr.
C1_ExecuteStopsAtFirstFailure ==
    /\ Len(TopCalls) <= Len(program)
    /\ \A k \in 1..Len(TopCalls) : TopCalls[k].path = <<k>>
    /\ \A k \in 1..Len(TopRets) :
        /\ TopRets[k].path = <<k>>
        /\ k < Len(TopCalls) => TopRets[k].res[1].ok /\ TopRets[k].res[1].val.code = 0
    /\ \A k \in 1..Len(log) : log[k].path[1] <= Len(TopCalls)
    /\ (Finished /\ result[1].ok) =>
          IF Len(program) = 0
          THEN result[1].val = ZeroStatus /\ log = <<>>
          ELSE LET n == Len(TopRets)
               IN  /\ n >= 1 /\ n = Len(TopCalls)
                   /\ result[1] = TopRets[n].res[1]
                   /\ log[Len(log)] = TopRets[n]
                   /\ variable_context = TopRets[n].context
                   /\ result[1].val.code = 0 => n = Len(program)

\* a program of three commands whose second command exited with code 2 and
\* output, so that the third was never evaluated
C1_Witness ==
    /\ Finished /\ result[1].ok
    /\ Len(program) = 3 /\ Len(TopCalls) = 2
    /\ result[1].val = ExitStatus(2, <<"o">>, <<>>)

(***************************************************************************)
(* Error propagation                                                       *)
(***************************************************************************)
\* C2: there is no local recovery from a ShexError: once the evaluation of
\* a node has returned a ShexError, nothing further is evaluated; each
\* enclosing handler returns that same error in turn, and so does execute.
C2_NoLocalRecovery ==
    \A k \in 1..Len(log) :
        IsErrRet(k) =>
            /\ \A j \in (k + 1)..Len(log) :
                /\ IsRet(j) /\ ResOf(j) = ResOf(k)
                /\ IsPrefix(log[j].path, log[j - 1].path)
                /\ Len(log[j].path) < Len(log[j - 1].path)
            /\ Finished => result[1] = ResOf(k) /\ IsTopLevel(log[Len(log)])

\* the left side of an OrIf failed with a ShexError inside a nested
\* construct, the OrIf returned the error, and execute returned it while a
\* second top-level command was left unevaluated
C2_Witness ==
    /\ Finished /\ ~result[1].ok
    /\ Len(program) = 2 /\ Len(TopCalls) = 1
    /\ \E k \in 1..Len(log) :
        /\ IsErrRet(k) /\ log[k].type = "OrIf"
        /\ \E j \in 1..(k - 2) : IsErrRet(j)

(***************************************************************************)
(* Scopes                                                                  *)
(***************************************************************************)
\* C3: a Subshell runs in a copy of the enclosing scope: when it returns,
\* get(name) is for every name what it was when the subshell started.
C3_SubshellLeavesScope ==
    \A k \in 1..Len(log) :
        (IsRet(k) /\ log[k].type = "Subshell") =>
            SameBindings(log[k].context, log[CallOf(k)].context)


\* the calls of the node at childPath between the call and the return at k
CallsWithin(k, childPath) ==
    {j \in Within(k) : IsCall(j) /\ log[j].path = childPath}

\* the returns of the node at childPath between the call and the return at k
RetsWithin(k, childPath) ==
    {j \in Within(k) : IsRet(j) /\ log[j].path = childPath}

\* between the call and the return at k something under prefix was evaluated
TouchedWithin(k, prefix) ==
    \E j \in Within(k) : IsPrefix(prefix, log[j].path)

\* the commands prefix \o <<1>> .. prefix \o <<n>> were each called once
\* between the call and the return at k, in this order
RanInOrder(k, prefix, n) ==
    /\ \A i \in 1..n : Cardinality(CallsWithin(k, prefix \o <<i>>)) = 1
    /\ \A i \in 1..(n - 1) :
          \A a \in CallsWithin(k, prefix \o <<i>>) :
              \A b \in CallsWithin(k, prefix \o <<i + 1>>) : a < b

\* the return at k hands on the Result of the last of the n commands under
\* prefix, or the all-zero status when there is none
ReturnsLastOf(k, prefix, n) ==
    IF n = 0 THEN ResOf(k) = Ok(ZeroStatus)
    ELSE /\ IsRet(k - 1) /\ log[k - 1].path = prefix \o <<n>>
         /\ ResOf(k) = ResOf(k - 1)

\* C4: a BraceGroup runs its commands in the caller's own scope: the scope
\* the caller has when the group returns is the scope the group's commands
\* left, and a group that returns an ExitStatus has run every contained
\* command in order and returns the last one's ExitStatus.
C4_BraceGroupSharesScope ==
    \A k \in 1..Len(log) :
        (IsRet(k) /\ log[k].type = "BraceGroup") =>
            /\ log[k].context = log[k - 1].context
            /\ IsOkRet(k) =>
                  LET n == Len(NodeAt(log[k].path).commands)
                  IN  /\ RanInOrder(k, log[k].path, n)
                      /\ ReturnsLastOf(k, log[k].path, n)

\* a BraceGroup whose first command failed and whose second command set X
\* has returned, and X is set to a in the scope of the caller
C4_Witness ==
    \E k \in 1..Len(log) :
        /\ IsOkRet(k) /\ log[k].type = "BraceGroup"
        /\ CtxGet(log[CallOf(k)].context, VarX) = None
        /\ CtxGet(variable_context, VarX) = Some(ValA)
        /\ \E j \in Within(k) : IsOkRet(j) /\ ResOf(j).val.code # 0
        /\ Finished

(***************************************************************************)
(* Sequence, AndIf, OrIf                                                   *)
(***************************************************************************)
\* C5: a Sequence evaluates every child in list order even when an earlier
\* child exits non-zero, and its result is the last child's ExitStatus
\* alone (the all-zero status for no children).
C5_SequenceRunsAll ==
    \A k \in 1..Len(log) :
        (IsOkRet(k) /\ log[k].type = "Sequence") =>
            LET n == Len(NodeAt(log[k].path).commands)
            IN  /\ RanInOrder(k, log[k].path, n)
                /\ ReturnsLastOf(k, log[k].path, n)

\* a Sequence of three children has returned: the first exited non-zero, a
\* later one printed something, and the result is not the first's
C5_Witness ==
    \E k \in 1..Len(log) :
        /\ IsOkRet(k) /\ log[k].type = "Sequence"
        /\ Len(NodeAt(log[k].path).commands) = 3
        /\ \E j \in RetsWithin(k, log[k].path \o <<1>>) : ResOf(j).val.code # 0
        /\ \E j \in RetsWithin(k, log[k].path \o <<2>>) : ResOf(j).val.stdout # <<>>
        /\ ResOf(k).val.code = 0

\* the right side of the AndIf or OrIf that returns at k was not evaluated:
\* the return follows the left side's return directly, with the left Result
\* and the scope the left side left
RightSkipped(k) ==
    /\ ~TouchedWithin(k, log[k].path \o <<SelRight>>)
    /\ IsRet(k - 1) /\ log[k - 1].path = log[k].path \o <<SelLeft>>
    /\ ResOf(k) = ResOf(k - 1)
    /\ log[k].context = log[k - 1].context

\* the right side was evaluated once, after the left side, and the return
\* at k hands on its Result
RightTaken(k) ==
    /\ Cardinality(CallsWithin(k, log[k].path \o <<SelRight>>)) = 1
    /\ \A a \in RetsWithin(k, log[k].path \o <<SelLeft>>) :
          \A b \in CallsWithin(k, log[k].path \o <<SelRight>>) : b = a + 1
    /\ IsRet(k - 1) /\ log[k - 1].path = log[k].path \o <<SelRight>>
    /\ ResOf(k) = ResOf(k - 1)

\* the exit code of the one evaluation of childPath within k
CodeWithin(k, childPath) ==
    ResOf(CHOOSE j \in RetsWithin(k, childPath) : TRUE).val.code

\* C6: AndIf evaluates right if and only if left's exit code is 0: when
\* left exits non-zero the result is left's ExitStatus and right is never
\* evaluated; when left exits 0 the result is right's.
C6_AndIfShortCircuit ==
    \A k \in 1..Len(log) :
        (IsOkRet(k) /\ log[k].type = "AndIf") =>
            /\ Cardinality(RetsWithin(k, log[k].path \o <<SelLeft>>)) = 1
            /\ IF CodeWithin(k, log[k].path \o <<SelLeft>>) = 0
               THEN RightTaken(k)
               ELSE RightSkipped(k)

\* an AndIf has returned the status of a left side that exited with code 2
\* and output
C6_Witness ==
    \E k \in 1..Len(log) :
        /\ IsOkRet(k) /\ log[k].type = "AndIf"
        /\ ResOf(k).val = ExitStatus(2, <<"o">>, <<>>)
        /\ RightSkipped(k)

\* C7: OrIf evaluates right if and only if left's exit code is non-zero:
\* when left exits 0 the result is left's ExitStatus and right is never
\* evaluated; when left exits non-zero the result is right's.  So in
\* OrIf(AndIf(a, b), c) the command c runs exactly when a exits non-zero,
\* or a exits 0 and b exits non-zero.
C7_OrIfShortCircuit ==
    \A k \in 1..Len(log) :
        (IsOkRet(k) /\ log[k].type = "OrIf") =>
            LET left == log[k].path \o <<SelLeft>>
                a    == left \o <<SelLeft>>
                b    == left \o <<SelRight>>
                c    == log[k].path \o <<SelRight>>
            IN  /\ Cardinality(RetsWithin(k, left)) = 1
                /\ IF CodeWithin(k, left) # 0
                   THEN RightTaken(k)
                   ELSE RightSkipped(k)
                /\ NodeAt(left).type = "AndIf" =>
                      (CallsWithin(k, c) # {}
                         <=> \/ CodeWithin(k, a) # 0
                             \/ /\ CodeWithin(k, a) = 0
                                /\ RetsWithin(k, b) # {}
                                /\ CodeWithin(k, b) # 0)

\* in OrIf(AndIf(a, b), c) a exited 0, b exited non-zero and c was run
C7_Witness ==
    \E k \in 1..Len(log) :
        /\ IsOkRet(k) /\ log[k].type = "OrIf"
        /\ NodeAt(log[k].path \o <<SelLeft>>).type = "AndIf"
        /\ RetsWithin(k, log[k].path \o <<SelLeft, SelRight>>) # {}
        /\ CodeWithin(k, log[k].path \o <<SelLeft, SelRight>>) # 0
        /\ RightTaken(k)


(***************************************************************************)
(* If                                                                      *)
(***************************************************************************)
\* the conditions of an If at path p, numbered from 0: the condition, then
\* the elif conditions in order
CondPath(p, i) ==
    IF i = 0 THEN p \o <<SelCondition>> ELSE p \o <<SelElif, i, SelCondition>>

\* where the commands of the body paired with condition i live
BodyPrefix(p, i) ==
    IF i = 0 THEN p \o <<SelBody>> ELSE p \o <<SelElif, i, SelBody>>

BodyOf(node, i) == IF i = 0 THEN node.then_body ELSE node.elif_clauses[i][2]

\* C8: If evaluates its condition and then the elif conditions in order,
\* stopping at the first one that exits 0: exactly the body paired with that
\* condition runs and the result is its last command's ExitStatus; when no
\* condition exits 0 the else body runs if present, otherwise the result is
\* code 0 with empty output.  At most one body ever runs.
C8_IfRunsFirstTrueBranch ==
    \A k \in 1..Len(log) :
        (IsOkRet(k) /\ log[k].type = "If") =>
            LET p     == log[k].path
                node  == NodeAt(p)
                m     == Len(node.elif_clauses)
                Ran(i) == RetsWithin(k, CondPath(p, i)) # {}
                Zero(i) == Ran(i) /\ CodeWithin(k, CondPath(p, i)) = 0
                taken == {i \in 0..m : Zero(i)}
            IN  /\ Ran(0)
                /\ \A i \in 0..m : Cardinality(CallsWithin(k, CondPath(p, i))) <= 1
                /\ \A i \in 1..m :
                      Ran(i) <=> (Ran(i - 1) /\ ~Zero(i - 1))
                /\ \A i \in 1..m :
                      \A a \in CallsWithin(k, CondPath(p, i - 1)) :
                          \A b \in CallsWithin(k, CondPath(p, i)) : a < b
                /\ Cardinality(taken) <= 1
                /\ \A i \in 0..m :
                      IF i \in taken
                      THEN /\ RanInOrder(k, BodyPrefix(p, i), Len(BodyOf(node, i)))
                           /\ ReturnsLastOf(k, BodyPrefix(p, i), Len(BodyOf(node, i)))
                      ELSE ~TouchedWithin(k, BodyPrefix(p, i))
                /\ IF taken = {} /\ IsSome(node.else_body)
                   THEN /\ RanInOrder(k, p \o <<SelElse>>, Len(Unwrap(node.else_body)))
                        /\ ReturnsLastOf(k, p \o <<SelElse>>, Len(Unwrap(node.else_body)))
                   ELSE ~TouchedWithin(k, p \o <<SelElse>>)
                /\ (taken = {} /\ ~IsSome(node.else_body)) => ResOf(k) = Ok(ZeroStatus)

\* an If with two elif clauses and an else body has returned: its condition
\* and its first elif condition exited non-zero, the second elif condition
\* exited 0 and the second elif body gave the result
C8_Witness ==
    \E k \in 1..Len(log) :
        /\ IsOkRet(k) /\ log[k].type = "If"
        /\ Len(NodeAt(log[k].path).elif_clauses) = 2
        /\ IsSome(NodeAt(log[k].path).else_body)
        /\ CodeWithin(k, CondPath(log[k].path, 0)) # 0
        /\ RetsWithin(k, CondPath(log[k].path, 2)) # {}
        /\ CodeWithin(k, CondPath(log[k].path, 2)) = 0
        /\ ResOf(k).val.code = 1

(***************************************************************************)
(* While and Until                                                         *)
(***************************************************************************)
\* what follows in the history the return at k of a loop condition: the
\* loop's return when the loop ends there, otherwise the first command of
\* the body (the condition again when the body is empty)
AfterCondition(k, ends) ==
    LET p    == SubSeq(log[k].path, 1, Len(log[k].path) - 1)
        body == NodeAt(p).body
    IN  k < Len(log) =>
           IF ends THEN IsRet(k + 1) /\ log[k + 1].path = p
           ELSE /\ IsCall(k + 1)
                /\ log[k + 1].path = IF Len(body) = 0 THEN log[k].path
                                     ELSE p \o <<SelBody, 1>>

\* the loop at path p starts with its condition, runs body commands only
\* after the condition or the previous body command, and evaluates the
\* condition again after the last body command
LoopShape(k) ==
    LET p    == log[k].path
        body == NodeAt(p).body
        cond == p \o <<SelCondition>>
    IN  /\ IsCall(k) /\ k < Len(log) => IsCall(k + 1) /\ log[k + 1].path = cond
        /\ \A j \in 1..Len(log) :
              /\ (IsCall(j) /\ log[j].path = p \o <<SelBody, 1>>) =>
                     IsOkRet(j - 1) /\ log[j - 1].path = cond
              /\ (IsOkRet(j) /\ log[j].path = p \o <<SelBody, Len(body)>>
                     /\ j < Len(log)) =>
                     IsCall(j + 1) /\ log[j + 1].path = cond

\* the return at k of a loop hands on the ExitStatus of the last run of the
\* body, the all-zero status when the body never ran
ReturnsLastBody(k) ==
    LET p    == log[k].path
        body == NodeAt(p).body
        runs == RetsWithin(k, p \o <<SelBody, Len(body)>>)
    IN  IF runs = {} THEN ResOf(k) = Ok(ZeroStatus)
        ELSE ResOf(k) = ResOf(CHOOSE j \in runs : \A h \in runs : h <= j)

IsConditionOf(k, type) ==
    /\ IsOkRet(k)
    /\ Len(log[k].path) >= 2
    /\ log[k].path[Len(log[k].path)] = SelCondition
    /\ \E c \in 1..(k - 1) :
          /\ IsCall(c) /\ log[c].type = type
          /\ log[c].path = SubSeq(log[k].path, 1, Len(log[k].path) - 1)

\* C9: While re-evaluates its condition before every iteration and runs the
\* body exactly when that evaluation exits 0; the loop's result is the
\* ExitStatus of the last body run, or code 0 with empty stdout and stderr
\* when the body never ran, never the status of the condition that ended it.
C9_WhileLoop ==
    \A k \in 1..Len(log) :
        /\ IsConditionOf(k, "While") => AfterCondition(k, ResOf(k).val.code # 0)
        /\ log[k].type = "While" => LoopShape(k)
        /\ (IsOkRet(k) /\ log[k].type = "While") =>
              /\ ReturnsLastBody(k)
              /\ IsOkRet(k - 1) /\ log[k - 1].path = log[k].path \o <<SelCondition>>
              /\ ResOf(k - 1).val.code # 0

\* a While has returned after its body ran twice: its result is the status
\* of the second run, and the condition that ended it exited with code 2
C9_Witness ==
    \E k \in 1..Len(log) :
        /\ IsOkRet(k) /\ log[k].type = "While"
        /\ Cardinality(RetsWithin(k, log[k].path \o <<SelBody, 1>>)) = 2
        /\ ResOf(k - 1).val.code = 2
        /\ ResOf(k).val.code = 1

\* C10: Until has the While loop shape with the opposite test: the body
\* runs after each condition evaluation that exits non-zero, the loop ends
\* at the first condition evaluation that exits 0, and the result is the
\* last body run's ExitStatus, or code 0 with empty output when the
\* condition exits 0 on its first evaluation.
C10_UntilLoop ==
    \A k \in 1..Len(log) :
        /\ IsConditionOf(k, "Until") => AfterCondition(k, ResOf(k).val.code = 0)
        /\ log[k].type = "Until" => LoopShape(k)
        /\ (IsOkRet(k) /\ log[k].type = "Until") =>
              /\ ReturnsLastBody(k)
              /\ IsOkRet(k - 1) /\ log[k - 1].path = log[k].path \o <<SelCondition>>
              /\ ResOf(k - 1).val.code = 0

\* an Until has returned after its body ran twice, following condition
\* evaluations that exited with codes 1 and 2
C10_Witness ==
    \E k \in 1..Len(log) :
        /\ IsOkRet(k) /\ log[k].type = "Until"
        /\ Cardinality(RetsWithin(k, log[k].path \o <<SelBody, 1>>)) = 2
        /\ \E a, b \in RetsWithin(k, log[k].path \o <<SelCondition>>) :
              ResOf(a).val.code = 1 /\ ResOf(b).val.code = 2
        /\ ResOf(k).val.code = 1

(***************************************************************************)
(* For                                                                     *)
(***************************************************************************)
\* the runs of the body of the loop that returned at k: the calls of the
\* first body command
BodyRuns(k) == CallsWithin(k, log[k].path \o <<SelBody, 1>>)

\* the position of the run that starts at j among the runs of the loop
RunIndex(k, j) == Cardinality({h \in BodyRuns(k) : h <= j})

\* the For that returned at k did nothing but return the all-zero status
ForDidNothing(k) ==
    /\ Within(k) = {}
    /\ ResOf(k) = Ok(ZeroStatus)
    /\ log[k].context = log[CallOf(k)].context

\* C11: a For over Some(list) runs its body exactly once per element, in
\* list order, with the variable bound to that element in the current
\* scope when the run starts; the scope after the loop is the one the last
\* run left (the variable holds the last element unless the body itself
\* assigned it) and the result is the last run's ExitStatus; over an empty
\* list or None the body never runs, the scope is untouched and the result
\* is code 0 with empty output.
C11_ForBindsEachWord ==
    \A k \in 1..Len(log) :
        (IsOkRet(k) /\ log[k].type = "For") =>
            LET node  == NodeAt(log[k].path)
                words == IF IsSome(node.words) THEN Unwrap(node.words) ELSE <<>>
                start == log[CallOf(k)].context
            IN  IF Len(words) = 0 THEN ForDidNothing(k)
                ELSE IF Len(node.body) = 0
                THEN /\ Within(k) = {}
                     /\ ResOf(k) = Ok(ZeroStatus)
                     /\ log[k].context = CtxSet(start, node.variable, words[Len(words)])
                ELSE /\ Cardinality(BodyRuns(k)) = Len(words)
                     /\ \A j \in BodyRuns(k) :
                           CtxGet(log[j].context, node.variable)
                               = Some(words[RunIndex(k, j)])
                     /\ ReturnsLastBody(k)
                     /\ log[k].context = log[k - 1].context

\* a For over two words has returned: its body ran twice and exited
\* non-zero, and the variable, unset before, holds the second word
C11_Witness ==
    \E k \in 1..Len(log) :
        /\ IsOkRet(k) /\ log[k].type = "For"
        /\ Cardinality(BodyRuns(k)) = 2
        /\ CtxGet(log[CallOf(k)].context, VarX) = None
        /\ CtxGet(log[k].context, VarX) = Some(ValB)
        /\ ResOf(k).val.code = 1

\* C11 as stated: after a For over a non-empty list the variable holds the
\* last element, whatever the body did.
C11_ForLeavesLastElement ==
    \A k \in 1..Len(log) :
        (IsOkRet(k) /\ log[k].type = "For"
            /\ IsSome(NodeAt(log[k].path).words)
            /\ Len(Unwrap(NodeAt(log[k].path).words)) > 0) =>
            LET node == NodeAt(log[k].path)
            IN  CtxGet(log[k].context, node.variable)
                    = Some(Unwrap(node.words)[Len(Unwrap(node.words))])


(***************************************************************************)
(* Case                                                                    *)
(***************************************************************************)
\* one of the patterns of the arm is the word, character for character
ArmHasWord(arm, word) == \E j \in 1..Len(arm.patterns) : arm.patterns[j] = word

\* the arms of the list that have the word among their patterns
ArmsWithWord(arms, word) == {a \in 1..Len(arms) : ArmHasWord(arms[a], word)}

\* C12: Case expands its word and runs the commands of the first arm, in
\* arm order, that has a pattern string-equal to the expanded word; no
\* other arm's commands are evaluated, a pattern such as * matches only
\* the word *, and when no pattern is equal the result is code 0 with
\* empty output and nothing is evaluated.
C12_CaseFirstExactMatch ==
    \A k \in 1..Len(log) :
        (IsOkRet(k) /\ log[k].type = "Case") =>
            LET p        == log[k].path
                node     == NodeAt(p)
                expanded == expand_single_argument(log[CallOf(k)].context,
                                                   node.word, DummySpan)
                equal    == ArmsWithWord(node.arms, expanded.res.val)
            IN  /\ expanded.res.ok
                /\ IF equal = {}
                   THEN /\ Within(k) = {}
                        /\ ResOf(k) = Ok(ZeroStatus)
                        /\ log[k].context = expanded.context
                   ELSE \E a \in equal :
                          /\ \A b \in equal : a <= b
                          /\ \A j \in Within(k) : IsPrefix(p \o <<a>>, log[j].path)
                          /\ RanInOrder(k, p \o <<a>>, Len(node.arms[a].commands))
                          /\ ReturnsLastOf(k, p \o <<a>>, Len(node.arms[a].commands))

\* a Case whose first arm has the pattern * and whose word expanded to
\* something else has run the commands of its second arm
C12_Witness ==
    \E k \in 1..Len(log) :
        /\ IsOkRet(k) /\ log[k].type = "Case"
        /\ Len(NodeAt(log[k].path).arms) = 2
        /\ NodeAt(log[k].path).arms[1].patterns = <<ArgStar>>
        /\ TouchedWithin(k, log[k].path \o <<2>>)
        /\ ~TouchedWithin(k, log[k].path \o <<1>>)

\* a Case has matched its word with the second pattern of its first arm
\* and left alone a later arm that has the word as well
C12_WitnessPatternOrder ==
    \E k \in 1..Len(log) :
        /\ IsOkRet(k) /\ log[k].type = "Case"
        /\ Cardinality(ArmsWithWord(NodeAt(log[k].path).arms, ValA)) = 2
        /\ NodeAt(log[k].path).word = ValA
        /\ TouchedWithin(k, log[k].path \o <<1>>)


(***************************************************************************)
(* Background                                                              *)
(***************************************************************************)
\* the node returning at k is the child sel of a node of the given type
IsChildOf(k, type, sel) ==
    /\ Len(log[k].path) >= 2
    /\ log[k].path[Len(log[k].path)] = sel
    /\ \E c \in 1..(k - 1) :
          /\ IsCall(c) /\ log[c].type = type
          /\ log[c].path = SubSeq(log[k].path, 1, Len(log[k].path) - 1)

\* what follows the return at k is what follows an exit code of 0: the
\* next top-level command, the return of an enclosing OrIf with the
\* all-zero status, the right side of an enclosing AndIf, the then body
\* of an enclosing If
FollowedAsSuccess(k) ==
    /\ (IsTopLevel(log[k]) /\ k < Len(log)) =>
          IsCall(k + 1) /\ log[k + 1].path = <<log[k].path[1] + 1>>
    /\ (IsTopLevel(log[k]) /\ k = Len(log) /\ Finished) =>
          /\ log[k].path[1] = Len(program)
          /\ result = Some(Ok(ZeroStatus))
    /\ (IsChildOf(k, "OrIf", SelLeft) /\ k < Len(log)) =>
          /\ IsRet(k + 1) /\ ResOf(k + 1) = Ok(ZeroStatus)
          /\ log[k + 1].path = SubSeq(log[k].path, 1, Len(log[k].path) - 1)
    /\ (IsChildOf(k, "AndIf", SelLeft) /\ k < Len(log)) =>
          /\ IsCall(k + 1)
          /\ log[k + 1].path
                = SubSeq(log[k].path, 1, Len(log[k].path) - 1) \o <<SelRight>>
    /\ (IsChildOf(k, "If", SelCondition) /\ Len(log[k].path) = 2 /\ k < Len(log)) =>
          /\ IsCall(k + 1)
          /\ log[k + 1].path = <<log[k].path[1], SelBody, 1>>

\* C13: Background evaluates the wrapped command once, synchronously, in
\* the current scope (what the command did to the scope stays), and when
\* the command returned an ExitStatus the Background returns code 0 with
\* empty stdout and stderr whatever that status was; the construct around
\* it goes on as after a success.
C13_BackgroundAlwaysSucceeds ==
    \A k \in 1..Len(log) :
        (IsRet(k) /\ log[k].type = "Background") =>
            LET inner == log[k].path \o <<SelInner>>
            IN  /\ CallsWithin(k, inner) = {CallOf(k) + 1}
                /\ RetsWithin(k, inner) = {k - 1}
                /\ log[k].context = log[k - 1].context
                /\ IsOkRet(k - 1) =>
                      /\ ResOf(k) = Ok(ZeroStatus)
                      /\ FollowedAsSuccess(k)

\* a top-level Background whose command exited non-zero with output on
\* stderr has returned the all-zero status, and execute went on to the
\* next top-level command
C13_Witness ==
    \E k \in 1..Len(log) :
        /\ IsOkRet(k) /\ log[k].type = "Background" /\ IsTopLevel(log[k])
        /\ ResOf(k - 1).val.code # 0
        /\ ResOf(k - 1).val.stderr # <<>>
        /\ ResOf(k) = Ok(ZeroStatus)
        /\ k < Len(log) /\ log[k + 1].path = <<2>>

\* a Background that is the left side of an AndIf wrapped a command that
\* exited non-zero, and the right side of the AndIf was evaluated
C13_WitnessAndIf ==
    \E k \in 1..Len(log) :
        /\ IsOkRet(k) /\ log[k].type = "Background"
        /\ IsChildOf(k, "AndIf", SelLeft)
        /\ ResOf(k - 1).val.code # 0
        /\ k < Len(log) /\ IsCall(k + 1)


(***************************************************************************)
(* Function definitions                                                    *)
(***************************************************************************)
\* C14: evaluating a Function definition is a no-op: it returns code 0
\* with empty stdout and stderr at once, nothing of the body is evaluated,
\* and the scope is the one it was called in.
C14_FunctionDefinitionNoOp ==
    \A k \in 1..Len(log) :
        (IsRet(k) /\ log[k].type = "Function") =>
            /\ IsCall(k - 1) /\ log[k - 1].path = log[k].path
            /\ ResOf(k) = Ok(ZeroStatus)
            /\ log[k].context = log[k - 1].context

\* the definition of a function whose body is X=a was evaluated with X
\* unset, and the echo $X after it failed because X is still unset
C14_Witness ==
    /\ Finished /\ ~result[1].ok
    /\ Len(program) = 2
    /\ program[1].type = "Function" /\ program[1].body = CmdAssignX
    /\ Len(log) = 4 /\ IsOkRet(2) /\ log[2].type = "Function"
    /\ result[1].err.kind = "UndefinedVariable"


(***************************************************************************)
(* Pipeline                                                                *)
(***************************************************************************)
\* C15: a Pipeline evaluates every stage in list order and its ExitStatus
\* is the last stage's: a non-zero exit of an earlier stage neither stops
\* the later stages nor shows in the result, and a pipeline without stages
\* yields code 0 with empty output.
C15_PipelineReturnsLastStage ==
    \A k \in 1..Len(log) :
        (IsOkRet(k) /\ log[k].type = "Pipeline") =>
            LET n == Len(NodeAt(log[k].path).commands)
            IN  /\ RanInOrder(k, log[k].path, n)
                /\ \A j \in Within(k) :
                      \E i \in 1..n : log[j].path = log[k].path \o <<i>>
                /\ ReturnsLastOf(k, log[k].path, n)

\* a Pipeline of two stages has returned code 0: the first stage exited
\* non-zero and the second stage was evaluated after it
C15_Witness ==
    \E k \in 1..Len(log) :
        /\ IsOkRet(k) /\ log[k].type = "Pipeline"
        /\ Len(NodeAt(log[k].path).commands) = 2
        /\ \E j \in RetsWithin(k, log[k].path \o <<1>>) : ResOf(j).val.code # 0
        /\ RetsWithin(k, log[k].path \o <<2>>) # {}
        /\ ResOf(k).val.code = 0


(***************************************************************************)
(* Simple commands                                                         *)
(***************************************************************************)
\* the positions of the prefix that assign the name
AssignedAt(assignments, name) ==
    {i \in 1..Len(assignments) : assignments[i][1] = name}

\* the value the last assignment of the name in the prefix gives it
LastAssigned(assignments, name) ==
    LET at == AssignedAt(assignments, name)
    IN  assignments[CHOOSE i \in at : \A j \in at : j <= i][2]

\* C16: a Simple command applies its prefix assignments to the current
\* scope in list order before it expands its arguments: an argument $x
\* sees the value the prefix gave x (it is never reported undefined, and an
\* echo of it prints that value), and a name the prefix assigned still has
\* the last value assigned to it when the command has returned, whatever
\* its exit code.
C16_PrefixAssignmentsPersist ==
    \A k \in 1..Len(log) :
        (IsRet(k) /\ log[k].type = "Simple") =>
            LET node == NodeAt(log[k].path)
            IN  \A n \in VarNames :
                    (AssignedAt(node.assignments, n) # {}
                        /\ LastAssigned(node.assignments, n) # <<>>) =>
                        /\ CtxGet(log[k].context, n)
                              = Some(LastAssigned(node.assignments, n))
                        /\ IsErrRet(k) =>
                              ~(ResOf(k).err.kind = "UndefinedVariable"
                                /\ ResOf(k).err.detail = n)
                        /\ (IsOkRet(k) /\ node.name = "echo"
                                /\ node.args = << <<"$">> \o n >>) =>
                              ResOf(k).val.stdout
                                = LastAssigned(node.assignments, n) \o <<"\n">>

\* the command Y=d X=a X=b test $X $Y ran with X and Y unset and exited
\* non-zero: afterwards X is b and Y is d
C16_Witness ==
    \E k \in 1..Len(log) :
        /\ IsOkRet(k) /\ log[k].type = "Simple"
        /\ NodeAt(log[k].path) = CmdPrefixTest
        /\ ResOf(k).val.code # 0
        /\ CtxGet(log[k - 1].context, VarX) = None
        /\ CtxGet(log[k - 1].context, VarY) = None
        /\ CtxGet(log[k].context, VarX) = Some(ValB)
        /\ CtxGet(log[k].context, VarY) = Some(ValD)

\* the command X=a X=b echo $X ran with X unset and printed b
C16_WitnessEcho ==
    \E k \in 1..Len(log) :
        /\ IsOkRet(k) /\ log[k].type = "Simple"
        /\ NodeAt(log[k].path) = CmdPrefixTwice
        /\ CtxGet(log[k - 1].context, VarX) = None
        /\ ResOf(k).val.stdout = <<"b", "\n">>


\* the words of a line: each word followed by one space, the last one by
\* one newline; a lone newline for no words
RECURSIVE EchoLine(_)
EchoLine(words) ==
    IF Len(words) = 0 THEN <<"\n">>
    ELSE IF Len(words) = 1 THEN words[1] \o <<"\n">>
    ELSE words[1] \o <<" ">> \o EchoLine(Tail(words))

\* the arguments of the Simple command that returned at k, expanded in the
\* scope its prefix assignments left
ExpandedArgsOf(k) ==
    LET node == NodeAt(log[k].path)
    IN  expand_arguments(execute_assignments(log[k - 1].context, node.assignments),
                         node.args, SpanOf(log[k].path)).res

\* C17: echo, true and false are built-ins, handled without any external
\* lookup: once its arguments are expanded, echo returns code 0, empty
\* stderr and as stdout the expanded arguments joined by single spaces and
\* followed by exactly one newline (a lone newline for no arguments); true
\* returns code 0 and false code 1, both with empty stdout and stderr.
C17_Builtins ==
    \A k \in 1..Len(log) :
        (IsRet(k) /\ log[k].type = "Simple") =>
            LET node == NodeAt(log[k].path)
            IN  /\ (node.name \in {"echo", "true", "false"} /\ IsErrRet(k)) =>
                      /\ ResOf(k).err.kind # "CommandNotFound"
                      /\ ~ExpandedArgsOf(k).ok
                /\ (node.name = "echo" /\ ExpandedArgsOf(k).ok) =>
                      ResOf(k) = Ok([code |-> 0,
                                     stdout |-> EchoLine(ExpandedArgsOf(k).val),
                                     stderr |-> <<>>])
                /\ (node.name = "true" /\ ExpandedArgsOf(k).ok) =>
                      ResOf(k) = Ok([code |-> 0, stdout |-> <<>>, stderr |-> <<>>])
                /\ (node.name = "false" /\ ExpandedArgsOf(k).ok) =>
                      ResOf(k) = Ok([code |-> 1, stdout |-> <<>>, stderr |-> <<>>])

\* echo a "" ${Y:=d} has printed its three words, the empty one included,
\* with single spaces between them and one newline at the end
C17_Witness ==
    \E k \in 1..Len(log) :
        /\ IsOkRet(k) /\ log[k].type = "Simple"
        /\ NodeAt(log[k].path) = CmdEchoWords
        /\ ResOf(k).val.stdout = <<"a", " ", " ", "d", "\n">>
        /\ ResOf(k).val.code = 0 /\ ResOf(k).val.stderr = <<>>

\* echo without arguments has printed a lone newline
C17_WitnessNoArguments ==
    \E k \in 1..Len(log) :
        /\ IsOkRet(k) /\ NodeAt(log[k].path) = CmdEchoNothing
        /\ ResOf(k).val.stdout = <<"\n">>


(***************************************************************************)
(* Parameter expansion                                                     *)
(***************************************************************************)
\* the return at k is that of `echo arg` for one of the given arguments
IsEchoOf(k, args) ==
    /\ IsRet(k) /\ log[k].type = "Simple"
    /\ NodeAt(log[k].path).name = "echo"
    /\ NodeAt(log[k].path).assignments = <<>>
    /\ Len(NodeAt(log[k].path).args) = 1
    /\ NodeAt(log[k].path).args[1] \in args

\* the echo that returned at k printed the value and left the scope alone
EchoedUnchanged(k, value) ==
    /\ ResOf(k) = Ok([code |-> 0, stdout |-> value \o <<"\n">>, stderr |-> <<>>])
    /\ log[k].context = log[k - 1].context

\* the forms that yield the value of a variable that is set and non-empty
ValueForms(v, d) ==
    {DollarForm(v), BracedForm(v),
     ColonForm(v, OpDefault, d), BareForm(v, OpDefault, d),
     ColonForm(v, OpAssign, d), BareForm(v, OpAssign, d)}

\* the forms among them whose operand the parser splits off correctly: a
\* form without a colon before the operator must have no colon after it
HasColon(d) == \E i \in 1..Len(d) : d[i] = ":"

SplittableValueForms(v, d) ==
    {DollarForm(v), BracedForm(v),
     ColonForm(v, OpDefault, d), ColonForm(v, OpAssign, d)}
    \cup (IF HasColon(d) THEN {}
          ELSE {BareForm(v, OpDefault, d), BareForm(v, OpAssign, d)})

\* v is set to a non-empty value in the scope the command at k was called in
SetNonEmptyAt(k, v) ==
    /\ IsSome(CtxGet(log[k - 1].context, v))
    /\ Unwrap(CtxGet(log[k - 1].context, v)) # <<>>

\* C18: for every variable v set to a non-empty value x and every default
\* d, each of $v, ${v}, ${v:-d}, ${v-d}, ${v:=d} and ${v=d} yields x and
\* leaves the scope unchanged.
C18_SetVariableYieldsValue ==
    \A k \in 1..Len(log) :
        \A v \in ExpansionNames, d \in ExpansionOperands :
            (IsEchoOf(k, ValueForms(v, d)) /\ SetNonEmptyAt(k, v)) =>
                EchoedUnchanged(k, Unwrap(CtxGet(log[k - 1].context, v)))

\* what holds of C18: the same for every form except ${v-d} and ${v=d}
\* with a colon in d
SetVariableYieldsValueUnlessColon ==
    \A k \in 1..Len(log) :
        \A v \in ExpansionNames, d \in ExpansionOperands :
            (IsEchoOf(k, SplittableValueForms(v, d)) /\ SetNonEmptyAt(k, v)) =>
                EchoedUnchanged(k, Unwrap(CtxGet(log[k - 1].context, v)))

\* with v set to x, the argument ${v-a:b} was not expanded: echo printed
\* the argument itself
C18_Witness ==
    \E k \in 1..Len(log) :
        /\ IsEchoOf(k, {BareForm(<<"v">>, OpDefault, <<"a", ":", "b">>)})
        /\ CtxGet(log[k - 1].context, <<"v">>) = Some(<<"x">>)
        /\ ResOf(k).ok
        /\ ResOf(k).val.stdout
              = <<"$", "{", "v", "-", "a", ":", "b", "}", "\n">>


\* the Simple command that returned at k has $v or ${v} as an argument, all
\* arguments before it are plain words, and its prefix does not assign v
NamesOnly(k, v) ==
    LET node == NodeAt(log[k].path)
    IN  /\ IsRet(k) /\ log[k].type = "Simple"
        /\ AssignedAt(node.assignments, v) = {}
        /\ \E i \in 1..Len(node.args) :
              /\ node.args[i] \in {DollarForm(v), BracedForm(v)}
              /\ \A j \in 1..(i - 1) :
                    node.args[j] = <<>> \/ node.args[j][1] # "$"

\* C19: for every variable v absent from the scope, a simple command with
\* the argument $v or ${v} fails with ShexError::UndefinedVariable whose
\* var is v; the command is not dispatched (a built-in returns no
\* ExitStatus, for an external command no process outcome shows) and the
\* scope is unchanged.
C19_UnsetVariableFails ==
    \A k \in 1..Len(log) :
        \A v \in ExpansionNames :
            (NamesOnly(k, v) /\ CtxGet(log[k - 1].context, v) = None) =>
                /\ ~ResOf(k).ok
                /\ ResOf(k).err.kind = "UndefinedVariable"
                /\ ResOf(k).err.detail = v
                /\ log[k].context = log[k - 1].context

\* the external command test -n ${_w1} was evaluated with _w1 unset and v
\* set: it failed with UndefinedVariable for _w1, and so did execute
C19_Witness ==
    \E k \in 1..Len(log) :
        /\ NamesOnly(k, <<"_", "w", "1">>)
        /\ NodeAt(log[k].path).name = "test"
        /\ NodeAt(log[k].path).args[2] = BracedForm(<<"_", "w", "1">>)
        /\ CtxGet(log[k - 1].context, <<"_", "w", "1">>) = None
        /\ CtxGet(log[k - 1].context, <<"v">>) = Some(<<"x">>)
        /\ ResOf(k) = Err(UndefinedVariable(<<"_", "w", "1">>, SpanOf(log[k].path)))
        /\ Finished /\ result = Some(ResOf(k))


\* the DefaultValue forms of v with the operand d
DefaultForms(v, d) == {ColonForm(v, OpDefault, d), BareForm(v, OpDefault, d)}

\* C20: for every unset variable v and default d, ${v:-d} and ${v-d} yield
\* d, and v is still unset afterwards: the scope is unchanged.
C20_UnsetYieldsDefault ==
    \A k \in 1..Len(log) :
        \A v \in ExpansionNames, d \in ExpansionOperands :
            (IsEchoOf(k, DefaultForms(v, d))
                /\ CtxGet(log[k - 1].context, v) = None) =>
                /\ EchoedUnchanged(k, d)
                /\ CtxGet(log[k].context, v) = None

\* what holds of C20: the same for ${v:-d} with every d and for ${v-d}
\* with a d that has no colon
UnsetYieldsDefaultUnlessColon ==
    \A k \in 1..Len(log) :
        \A v \in ExpansionNames, d \in ExpansionOperands :
            (IsEchoOf(k, {ColonForm(v, OpDefault, d)}
                           \cup (IF HasColon(d) THEN {}
                                 ELSE {BareForm(v, OpDefault, d)}))
                /\ CtxGet(log[k - 1].context, v) = None) =>
                /\ EchoedUnchanged(k, d)
                /\ CtxGet(log[k].context, v) = None

\* no DefaultValue form, expanded or not, changes the scope
DefaultFormsLeaveScope ==
    \A k \in 1..Len(log) :
        \A v \in ExpansionNames, d \in ExpansionOperands :
            IsEchoOf(k, DefaultForms(v, d)) =>
                log[k].context = log[k - 1].context

\* with v unset, the argument ${v-a:b} was not expanded: echo printed the
\* argument itself instead of a:b
C20_Witness ==
    \E k \in 1..Len(log) :
        /\ IsEchoOf(k, {BareForm(<<"v">>, OpDefault, <<"a", ":", "b">>)})
        /\ CtxGet(log[k - 1].context, <<"v">>) = None
        /\ ResOf(k).ok
        /\ ResOf(k).val.stdout
              = <<"$", "{", "v", "-", "a", ":", "b", "}", "\n">>


\* the echo that returned at k printed the value
Echoed(k, value) ==
    ResOf(k) = Ok([code |-> 0, stdout |-> value \o <<"\n">>, stderr |-> <<>>])

\* the scope after the return at k is the scope before with v set to d
AssignedOnly(k, v, d) == log[k].context = CtxSet(log[k - 1].context, v, d)

\* what C21 says of the assign-default forms in args, colon forms in
\* colonArgs and forms without colon in bareArgs
AssignDefaultOf(k, v, d, colonArgs, bareArgs) ==
    LET before == CtxGet(log[k - 1].context, v)
    IN  /\ (IsEchoOf(k, colonArgs \cup bareArgs) /\ before = None) =>
              /\ Echoed(k, d)
              /\ CtxGet(log[k].context, v) = Some(d)
              /\ AssignedOnly(k, v, d)
        /\ (IsEchoOf(k, colonArgs) /\ before = Some(<<>>)) =>
              /\ Echoed(k, d)
              /\ CtxGet(log[k].context, v) = Some(d)
              /\ AssignedOnly(k, v, d)
        /\ (IsEchoOf(k, bareArgs) /\ before = Some(<<>>)) =>
              EchoedUnchanged(k, <<>>)

\* C21: for every unset variable v and default d, ${v:=d} and ${v=d} yield
\* d and afterwards get(v) is d in the current scope; when v is set to the
\* empty string, ${v:=d} assigns d and yields d, whereas ${v=d} yields the
\* empty string and leaves v unchanged.
C21_AssignDefault ==
    \A k \in 1..Len(log) :
        \A v \in ExpansionNames, d \in ExpansionOperands :
            AssignDefaultOf(k, v, d, {ColonForm(v, OpAssign, d)},
                            {BareForm(v, OpAssign, d)})

\* what holds of C21: the same, except for ${v=d} with a colon in d
AssignDefaultUnlessColon ==
    \A k \in 1..Len(log) :
        \A v \in ExpansionNames, d \in ExpansionOperands :
            AssignDefaultOf(k, v, d, {ColonForm(v, OpAssign, d)},
                            IF HasColon(d) THEN {}
                            ELSE {BareForm(v, OpAssign, d)})

\* with v unset, the argument ${v=a:b} was not expanded: echo printed the
\* argument itself and v is still unset
C21_Witness ==
    \E k \in 1..Len(log) :
        /\ IsEchoOf(k, {BareForm(<<"v">>, OpAssign, <<"a", ":", "b">>)})
        /\ CtxGet(log[k - 1].context, <<"v">>) = None
        /\ ResOf(k).ok
        /\ ResOf(k).val.stdout
              = <<"$", "{", "v", "=", "a", ":", "b", "}", "\n">>
        /\ CtxGet(log[k].context, <<"v">>) = None


\* the execute call in progress has assigned d to v by ${v:=d}
JustAssigned(v, d) ==
    \E k \in 1..Len(log) :
        /\ IsEchoOf(k, {ColonForm(v, OpAssign, d)})
        /\ log[k].context # log[k - 1].context
        /\ CtxGet(log[k].context, v) = Some(d)

\* v holds d, and every ${v:=e} evaluated in the execute call in progress
\* has yielded d and left v at d
StoredValueYielded(v, d) ==
    /\ CtxGet(variable_context, v) = Some(d)
    /\ \A k \in 1..Len(log) :
          \A e \in ExpansionOperands :
              IsEchoOf(k, {ColonForm(v, OpAssign, e)}) =>
                  /\ Echoed(k, d)
                  /\ log[k].context = CtxSet(log[k - 1].context, v, d)
                  /\ CtxGet(log[k - 1].context, v) = Some(d) =>
                        log[k].context = log[k - 1].context

\* C22: assign-default is idempotent and the scope persists across execute
\* calls on one Interpreter: once ${v:=d} with a non-empty d has assigned
\* v, v holds d from then on, between the calls as well, and every
\* ${v:=d} or ${v:=other} evaluated in a later execute call yields d and
\* leaves v unchanged.
C22_AssignDefaultIdempotent ==
    \A v \in ExpansionNames :
        \A d \in ExpansionOperands \ {<<>>} :
            [](JustAssigned(v, d) => []StoredValueYielded(v, d))

\* v holds a:b, which an earlier execute call assigned by default, and the
\* execute call in progress has evaluated ${v:=d}: echo printed a:b and v
\* still holds a:b
C22_Witness ==
    \E k \in 1..Len(log) :
        /\ IsEchoOf(k, {ColonForm(<<"v">>, OpAssign, <<"d">>)})
        /\ CtxGet(log[k - 1].context, <<"v">>) = Some(<<"a", ":", "b">>)
        /\ Echoed(k, <<"a", ":", "b">>)
        /\ CtxGet(variable_context, <<"v">>) = Some(<<"a", ":", "b">>)

\* the message of a triggering ErrorIfUnset form of v with the operand msg
ErrorMessage(v, msg) == IF msg = <<>> THEN v \o ParameterNullOrNotSet ELSE msg

\* the echo that returned at k failed with ShexError::Syntax and the message
\* and left the scope alone
FailedUnchanged(k, message) ==
    /\ ~ResOf(k).ok
    /\ ResOf(k).err.kind = "Syntax"
    /\ ResOf(k).err.detail = message
    /\ log[k].context = log[k - 1].context

\* what C23 says of the error-if-unset forms in args, colon forms in
\* colonArgs and bare forms in bareArgs
ErrorIfUnsetOf(k, v, msg, colonArgs, bareArgs) ==
    LET before == CtxGet(log[k - 1].context, v)
    IN  /\ (IsEchoOf(k, colonArgs \cup bareArgs) /\ before = None) =>
              FailedUnchanged(k, ErrorMessage(v, msg))
        /\ (IsEchoOf(k, colonArgs) /\ before = Some(<<>>)) =>
              FailedUnchanged(k, ErrorMessage(v, msg))
        /\ (IsEchoOf(k, bareArgs) /\ before = Some(<<>>)) =>
              EchoedUnchanged(k, <<>>)
        /\ (IsEchoOf(k, colonArgs \cup bareArgs)
                /\ IsSome(before) /\ before # Some(<<>>)) =>
              EchoedUnchanged(k, Unwrap(before))
        /\ IsEchoOf(k, colonArgs \cup bareArgs) =>
              log[k].context = log[k - 1].context

\* C23: when v is unset (or, for the colon form, empty), ${v:?} and ${v?}
\* fail with ShexError::Syntax and the message "v: parameter null or not
\* set", and ${v:?msg} and ${v?msg} fail with ShexError::Syntax and the
\* message msg; when v does not trigger, the expansion yields v's value and
\* raises no error; no ErrorIfUnset expansion changes the scope.
C23_ErrorIfUnset ==
    \A k \in 1..Len(log) :
        \A v \in ExpansionNames, msg \in ExpansionOperands :
            ErrorIfUnsetOf(k, v, msg, {ColonForm(v, OpError, msg)},
                           {BareForm(v, OpError, msg)})

\* what holds of C23: the same for ${v:?msg} with every msg and for
\* ${v?msg} with a msg that has no colon
ErrorIfUnsetUnlessColon ==
    \A k \in 1..Len(log) :
        \A v \in ExpansionNames, msg \in ExpansionOperands :
            ErrorIfUnsetOf(k, v, msg, {ColonForm(v, OpError, msg)},
                           IF HasColon(msg) THEN {}
                           ELSE {BareForm(v, OpError, msg)})

\* with v unset, the argument ${v?a:b} was not expanded: echo succeeded and
\* printed the argument itself instead of failing with the message a:b
C23_Witness ==
    \E k \in 1..Len(log) :
        /\ IsEchoOf(k, {BareForm(<<"v">>, OpError, <<"a", ":", "b">>)})
        /\ CtxGet(log[k - 1].context, <<"v">>) = None
        /\ ResOf(k).ok
        /\ ResOf(k).val.stdout
              = <<"$", "{", "v", "?", "a", ":", "b", "}", "\n">>

\* with _w1 empty, ${_w1:?} failed with "_w1: parameter null or not set"
\* and ${v?p=q} with v unset failed with "p=q"
ErrorIfUnsetFails ==
    \E k \in 1..Len(log) :
        \/ /\ IsEchoOf(k, {ColonForm(<<"_", "w", "1">>, OpError, <<>>)})
           /\ CtxGet(log[k - 1].context, <<"_", "w", "1">>) = Some(<<>>)
           /\ FailedUnchanged(k, <<"_", "w", "1">> \o ParameterNullOrNotSet)
        \/ /\ IsEchoOf(k, {BareForm(<<"v">>, OpError, <<"p", "=", "q">>)})
           /\ CtxGet(log[k - 1].context, <<"v">>) = None
           /\ FailedUnchanged(k, <<"p", "=", "q">>)

\* what C24 says of the alternative-value forms in args, colon forms in
\* colonArgs and bare forms in bareArgs
AlternativeValueOf(k, v, a, colonArgs, bareArgs) ==
    LET before == CtxGet(log[k - 1].context, v)
    IN  /\ (IsEchoOf(k, colonArgs \cup bareArgs) /\ before = None) =>
              EchoedUnchanged(k, <<>>)
        /\ (IsEchoOf(k, colonArgs) /\ before = Some(<<>>)) =>
              EchoedUnchanged(k, <<>>)
        /\ (IsEchoOf(k, bareArgs) /\ before = Some(<<>>)) =>
              EchoedUnchanged(k, a)
        /\ (IsEchoOf(k, colonArgs \cup bareArgs)
                /\ IsSome(before) /\ before # Some(<<>>)) =>
              EchoedUnchanged(k, a)

\* C24: AlternativeValue never fails: ${v:+a} yields a when v is set and
\* non-empty and the empty string when v is unset or empty; ${v+a} yields a
\* whenever v is set, also when empty, and the empty string when v is
\* unset; no AlternativeValue expansion raises an error or changes the
\* scope.
C24_AlternativeValue ==
    \A k \in 1..Len(log) :
        \A v \in ExpansionNames, a \in ExpansionOperands :
            /\ AlternativeValueOf(k, v, a, {ColonForm(v, OpAlternative, a)},
                                  {BareForm(v, OpAlternative, a)})
            /\ IsEchoOf(k, {ColonForm(v, OpAlternative, a),
                            BareForm(v, OpAlternative, a)}) =>
                  /\ ResOf(k).ok
                  /\ log[k].context = log[k - 1].context

\* what holds of C24: the values for ${v:+a} with every a and for ${v+a}
\* with an a that has no colon
AlternativeValueUnlessColon ==
    \A k \in 1..Len(log) :
        \A v \in ExpansionNames, a \in ExpansionOperands :
            AlternativeValueOf(k, v, a, {ColonForm(v, OpAlternative, a)},
                               IF HasColon(a) THEN {}
                               ELSE {BareForm(v, OpAlternative, a)})

\* no AlternativeValue form, expanded or not, fails or changes the scope
AlternativeValueNeverFails ==
    \A k \in 1..Len(log) :
        \A v \in ExpansionNames, a \in ExpansionOperands :
            IsEchoOf(k, {ColonForm(v, OpAlternative, a),
                         BareForm(v, OpAlternative, a)}) =>
                /\ ResOf(k).ok
                /\ log[k].context = log[k - 1].context

\* with v set to x, the argument ${v+a:b} was not expanded: echo printed
\* the argument itself instead of a:b
C24_Witness ==
    \E k \in 1..Len(log) :
        /\ IsEchoOf(k, {BareForm(<<"v">>, OpAlternative, <<"a", ":", "b">>)})
        /\ CtxGet(log[k - 1].context, <<"v">>) = Some(<<"x">>)
        /\ ResOf(k).ok
        /\ ResOf(k).val.stdout
              = <<"$", "{", "v", "+", "a", ":", "b", "}", "\n">>

\* with _w1 empty, ${_w1+d} printed d and ${_w1:+d} printed nothing
AlternativeValueOfEmpty ==
    \E k \in 2..Len(log) :
        /\ CtxGet(log[k - 1].context, <<"_", "w", "1">>) = Some(<<>>)
        /\ \/ /\ IsEchoOf(k, {BareForm(<<"_", "w", "1">>, OpAlternative, <<"d">>)})
              /\ EchoedUnchanged(k, <<"d">>)
           \/ /\ IsEchoOf(k, {ColonForm(<<"_", "w", "1">>, OpAlternative, <<"d">>)})
              /\ EchoedUnchanged(k, <<>>)

\* the operators of DefaultValue, AssignDefault and ErrorIfUnset
TriggeringOperators == {OpDefault, OpAssign, OpError}

\* the expansion of v with the operator and the operand d has triggered in
\* the echo that returned at k
Triggered(k, v, op, d) ==
    IF op = OpDefault THEN EchoedUnchanged(k, d)
    ELSE IF op = OpAssign THEN Echoed(k, d) /\ AssignedOnly(k, v, d)
    ELSE FailedUnchanged(k, ErrorMessage(v, d))

\* what C25 says of the colon forms in colonArgs (check_unset = true) and
\* the bare forms in bareArgs (check_unset = false)
TriggersOf(k, v, op, d, colonArgs, bareArgs) ==
    LET before == CtxGet(log[k - 1].context, v)
    IN  /\ IsEchoOf(k, colonArgs) =>
              IF before \in {None, Some(<<>>)} THEN Triggered(k, v, op, d)
              ELSE EchoedUnchanged(k, Unwrap(before))
        /\ IsEchoOf(k, bareArgs) =>
              IF before = None THEN Triggered(k, v, op, d)
              ELSE EchoedUnchanged(k, Unwrap(before))

\* C25: for a variable v set to the empty string ${v-d} yields the empty
\* string and ${v:-d} yields d; in general, for DefaultValue, AssignDefault
\* and ErrorIfUnset, the colon form (check_unset = true) triggers when v is
\* unset or empty, and the form without colon (check_unset = false)
\* triggers only when v is unset.
C25_EmptyTriggersColonFormOnly ==
    \A k \in 1..Len(log) :
        \A v \in ExpansionNames, d \in ExpansionOperands :
            \A op \in TriggeringOperators :
                TriggersOf(k, v, op, d, {ColonForm(v, op, d)},
                           {BareForm(v, op, d)})

\* what holds of C25: the same for the colon forms with every d and for
\* the forms without colon with a d that has no colon
TriggersUnlessColon ==
    \A k \in 1..Len(log) :
        \A v \in ExpansionNames, d \in ExpansionOperands :
            \A op \in TriggeringOperators :
                TriggersOf(k, v, op, d, {ColonForm(v, op, d)},
                           IF HasColon(d) THEN {} ELSE {BareForm(v, op, d)})

\* with v set to the empty string, the argument ${v-a:b} was not expanded:
\* echo printed the argument itself instead of the empty string
C25_Witness ==
    \E k \in 2..Len(log) :
        /\ IsEchoOf(k, {BareForm(<<"v">>, OpDefault, <<"a", ":", "b">>)})
        /\ CtxGet(log[k - 1].context, <<"v">>) = Some(<<>>)
        /\ ResOf(k).ok
        /\ ResOf(k).val.stdout
              = <<"$", "{", "v", "-", "a", ":", "b", "}", "\n">>

\* with v set to the empty string, ${v-d} printed the empty string and
\* ${v:-d} printed d
EmptyTriggersColonForm ==
    \E k \in 2..Len(log) :
        /\ CtxGet(log[k - 1].context, <<"v">>) = Some(<<>>)
        /\ \/ /\ IsEchoOf(k, {BareForm(<<"v">>, OpDefault, <<"d">>)})
              /\ EchoedUnchanged(k, <<>>)
           \/ /\ IsEchoOf(k, {ColonForm(<<"v">>, OpDefault, <<"d">>)})
              /\ EchoedUnchanged(k, <<"d">>)

\* the operation the context went through last
LastOp(name) == Len(log) = 1 /\ log[1].ev = name

\* the rule by which a request triggers: the variable is unset, or it is
\* empty and the request checks for that
RequestTriggers(context, request) ==
    \/ CtxGet(context, request.variable_name) = None
    \/ /\ request.check_unset
       /\ CtxGet(context, request.variable_name) = Some(<<>>)

\* the two contexts differ at most in the local binding of the name
SameButLocal(before, after, name) ==
    /\ after.parent = before.parent
    /\ DOMAIN after.variables \ {name} = DOMAIN before.variables \ {name}
    /\ \A n \in DOMAIN before.variables \ {name} :
          after.variables[n] = before.variables[n]

\* C26: resolve_expansion leaves the VariableContext unchanged for every
\* request whose mode is Normal, DefaultValue, ErrorIfUnset or
\* AlternativeValue, and for every AssignDefault request that does not
\* trigger or has no parameter; the only mutation it ever performs is
\* setting variable_name to parameter in the local map when an
\* AssignDefault request triggers.
C26_OnlyAssignDefaultMutates ==
    LastOp("resolve_expansion") =>
        LET before  == log[1].before
            after   == log[1].after
            request == log[1].request
        IN  IF request.mode = "AssignDefault"
               /\ RequestTriggers(before, request)
               /\ request.parameter # None
            THEN /\ SameButLocal(before, after, request.variable_name)
                 /\ request.variable_name \in DOMAIN after.variables
                 /\ after.variables[request.variable_name]
                       = Unwrap(request.parameter)
                 /\ log[1].res = Resolved(Unwrap(request.parameter))
            ELSE after = before

\* a child whose parent binds v to the empty string resolved ${v:=x}: the
\* child binds v to x in its local map and the parent still binds it to
\* the empty string
C26_Witness ==
    /\ LastOp("resolve_expansion")
    /\ log[1].request = Request(<<"v">>, "AssignDefault", Some(<<"x">>), TRUE)
    /\ IsSome(log[1].before.parent)
    /\ <<"v">> \notin DOMAIN log[1].before.variables
    /\ CtxGet(log[1].before, <<"v">>) = Some(<<>>)
    /\ variable_context.variables = MapInsert(log[1].before.variables,
                                              <<"v">>, <<"x">>)
    /\ CtxGet(Unwrap(variable_context.parent), <<"v">>) = Some(<<>>)

\* a DefaultValue request triggered on an unset variable and the context
\* is as it was
DefaultValueLeavesContext ==
    /\ LastOp("resolve_expansion")
    /\ log[1].request = Request(<<"v">>, "DefaultValue", Some(<<"x">>), FALSE)
    /\ CtxGet(log[1].before, <<"v">>) = None
    /\ log[1].res = Resolved(<<"x">>)
    /\ variable_context = log[1].before

\* get(name) on a child: the local value when there is one, otherwise what
\* the parent chain gives
ChildGet(child, name) ==
    IF name \in DOMAIN child.variables THEN Some(child.variables[name])
    ELSE CtxGet(Unwrap(child.parent), name)

\* C27: for a context created by with_parent(p), no operation on the child
\* (set, a resolution, import_from) changes the parent's bindings: set
\* writes only the child's local map, and get(name) returns the child's
\* local value when present and otherwise the parent chain's value, so a
\* set on the child shadows the parent's binding and never changes it.
C27_ChildNeverMutatesParent ==
    (Len(log) = 1 /\ log[1].ev \in {"set", "resolve_expansion", "import_from"}
        /\ IsSome(log[1].before.parent)) =>
        LET before == log[1].before
            after  == log[1].after
        IN  /\ after.parent = before.parent
            /\ \A n \in ExpansionNames :
                  /\ CtxGet(Unwrap(after.parent), n)
                        = CtxGet(Unwrap(before.parent), n)
                  /\ CtxGet(after, n) = ChildGet(after, n)
            /\ log[1].ev = "set" =>
                  /\ SameButLocal(before, after, log[1].name)
                  /\ CtxGet(after, log[1].name) = Some(log[1].value)

\* a child whose parent binds v to x was told set(v, ""): the child's get
\* gives the empty string and the parent's get still gives x
C27_Witness ==
    /\ LastOp("set")
    /\ log[1].name = <<"v">> /\ log[1].value = <<>>
    /\ IsSome(log[1].before.parent)
    /\ CtxGet(log[1].before, <<"v">>) = Some(<<"x">>)
    /\ <<"v">> \notin DOMAIN log[1].before.variables
    /\ CtxGet(variable_context, <<"v">>) = Some(<<>>)
    /\ CtxGet(Unwrap(variable_context.parent), <<"v">>) = Some(<<"x">>)

\* import_from(target, other) as the claim C28 words it
ImportedExactly(before, after, other) ==
    /\ after.parent = before.parent
    /\ DOMAIN after.variables
          = DOMAIN before.variables \cup DOMAIN other.variables
    /\ \A n \in DOMAIN other.variables :
          after.variables[n] = other.variables[n]
    /\ \A n \in DOMAIN before.variables \ DOMAIN other.variables :
          after.variables[n] = before.variables[n]

\* C28: target.import_from(other) copies exactly other's local bindings
\* into target's local map, overwriting target's local bindings of the
\* same names: bindings other only inherits from its parent are not
\* imported and target's other bindings are kept.
C28_ImportCopiesLocalBindings ==
    LastOp("import_from") =>
        /\ ImportedExactly(log[1].before, log[1].after, log[1].other)
        /\ \A n \in VisibleNames(log[1].other) \ DOMAIN log[1].other.variables :
              n \notin DOMAIN log[1].before.variables =>
                  n \notin DOMAIN log[1].after.variables

\* a target that binds v to the empty string and nothing else imported
\* from a context that binds _w1 itself and inherits v = x from its
\* parent: the target has _w1 and its v is as it was
C28_Witness ==
    /\ LastOp("import_from")
    /\ log[1].other = CtxSet(WithParent(CtxSet(NewContext, <<"v">>, <<"x">>)),
                             <<"_", "w", "1">>, <<>>)
    /\ log[1].before.variables = MapInsert(EmptyMap, <<"v">>, <<>>)
    /\ variable_context.variables
          = MapInsert(MapInsert(EmptyMap, <<"v">>, <<>>), <<"_", "w", "1">>, <<>>)

\* a target that binds v to the empty string imported from a context that
\* binds v to x: the target's v is x
ImportOverwrites ==
    /\ LastOp("import_from")
    /\ log[1].other = CtxSet(NewContext, <<"v">>, <<"x">>)
    /\ CtxGet(log[1].before, <<"v">>) = Some(<<>>)
    /\ <<"v">> \in DOMAIN log[1].before.variables
    /\ CtxGet(variable_context, <<"v">>) = Some(<<"x">>)

\* the return at k is that of a simple command with a non-built-in name
IsExternalRet(k) ==
    /\ IsRet(k) /\ log[k].type = "Simple"
    /\ NodeAt(log[k].path).name \notin BuiltinNames

\* the path of the node whose child returned at k
ParentPath(k) == SubSeq(log[k].path, 1, Len(log[k].path) - 1)

\* the non-zero exit at k is taken as data by the construct around it: an
\* OrIf goes on to its right side, an AndIf returns the status, a loop whose
\* condition it was ends with a status, and in no case is the next event
\* the return of an error
TakenAsData(k) ==
    /\ ~(IsRet(k + 1) /\ IsErrRet(k + 1))
    /\ IsChildOf(k, "OrIf", SelLeft) =>
          IsCall(k + 1) /\ log[k + 1].path = ParentPath(k) \o <<SelRight>>
    /\ IsChildOf(k, "AndIf", SelLeft) =>
          /\ IsRet(k + 1) /\ log[k + 1].path = ParentPath(k)
          /\ ResOf(k + 1) = ResOf(k)
    /\ IsChildOf(k, "While", SelCondition) =>
          /\ IsRet(k + 1) /\ log[k + 1].path = ParentPath(k)
          /\ IsOkRet(k + 1)

\* C29: for a non-built-in command name, evaluation returns
\* Err(CommandNotFound{command = name}) exactly when the process cannot be
\* spawned; a process that is spawned and exits with a non-zero code yields
\* Ok(ExitStatus) with that code and is never turned into a ShexError, so
\* AndIf, OrIf and loops take it as ordinary control-flow data.
C29_CommandNotFoundOnlyOnSpawnFailure ==
    \A k \in 1..Len(log) :
        IsExternalRet(k) =>
            LET name == NodeAt(log[k].path).name
                notFound == Err(CommandNotFound(name, SpanOf(log[k].path)))
            IN  /\ (IsErrRet(k) /\ ResOf(k).err.kind = "CommandNotFound") <=>
                      log[k].output = Some(SpawnFailed)
                /\ log[k].output = Some(SpawnFailed) => ResOf(k) = notFound
                /\ (IsSome(log[k].output) /\ Unwrap(log[k].output).spawned) =>
                      LET output == Unwrap(log[k].output)
                      IN  /\ IsOkRet(k)
                          /\ ResOf(k).val.stdout = output.stdout
                          /\ ResOf(k).val.stderr = output.stderr
                          /\ IsSome(output.code) =>
                                ResOf(k).val.code = Unwrap(output.code)
                          /\ (ResOf(k).val.code # 0 /\ k < Len(log)) =>
                                TakenAsData(k)
                /\ log[k].output = None =>
                      /\ IsErrRet(k)
                      /\ ~ExpandedArgsOf(k).ok

\* test, the left side of an OrIf, was spawned and exited with code 1: it
\* returned Ok with code 1 and the right side of the OrIf was called
C29_Witness ==
    \E k \in 1..Len(log) :
        /\ IsExternalRet(k)
        /\ log[k].output = Some(Exited(1, <<>>, <<"e">>))
        /\ ResOf(k) = Ok(ExitStatus(1, <<>>, <<"e">>))
        /\ IsChildOf(k, "OrIf", SelLeft)
        /\ k < Len(log) /\ IsCall(k + 1)

\* test could not be spawned: it returned CommandNotFound for test, and so
\* did execute
CommandNotFoundReturned ==
    \E k \in 1..Len(log) :
        /\ IsExternalRet(k)
        /\ log[k].output = Some(SpawnFailed)
        /\ ResOf(k) = Err(CommandNotFound("test", SpanOf(log[k].path)))
        /\ Finished /\ result = Some(ResOf(k))

(***************************************************************************)
(* Redirections                                                            *)
(***************************************************************************)
\* the kinds apply_redirections acts on and how each opens its target
AppliedKinds == {"Input", "Output", "Append"}

OpenMode(kind) ==
    IF kind = "Input" THEN "read"
    ELSE IF kind = "Output" THEN "create" ELSE "append"

\* the descriptor a redirection names: fd, or 0 for the input kinds and 1
\* for the output kinds
DescriptorOf(redirection) ==
    IF IsSome(redirection.fd) THEN Unwrap(redirection.fd)
    ELSE IF redirection.kind \in {"Input", "HereDoc", "HereDocDash",
                                  "InputDup", "InputOutput"}
    THEN 0 ELSE 1

\* the stream of a StdCommand behind a descriptor
StreamOf(cmd, descriptor) ==
    IF descriptor = 0 THEN cmd.stdin
    ELSE IF descriptor = 1 THEN cmd.stdout ELSE cmd.stderr

IsApplied(redirection) == redirection.kind \in AppliedKinds

\* the external command that returned at k was spawned with all its
\* redirections applied
SpawnedWithRedirections(k) ==
    /\ IsExternalRet(k)
    /\ IsSome(log[k].output) /\ IsSome(log[k].cmd)

\* the files were opened in the order of the list, and behind every
\* descriptor that one of the redirections in consider names is the file
\* of the last of them that names it
InListedOrder(k, consider) ==
    LET redirections == NodeAt(log[k].path).redirections
        cmd          == Unwrap(log[k].cmd)
        applied      == SelectSeq(redirections, IsApplied)
    IN  /\ cmd.opened = [j \in 1..Len(applied) |->
                            <<applied[j].target, OpenMode(applied[j].kind)>>]
        /\ \A d \in {0, 1, 2} :
              LET naming == {i \in consider :
                                DescriptorOf(redirections[i]) = d}
              IN  naming # {} =>
                      LET last == CHOOSE i \in naming : \A j \in naming : j <= i
                      IN  StreamOf(cmd, d)
                             = StdioFile(redirections[last].target,
                                         OpenMode(redirections[last].kind))

\* C30: the redirections of a simple command are applied in listed order,
\* and a later one overrides an earlier one only when both name the same
\* file descriptor (fd, or 0 for input kinds and 1 for output kinds):
\* behind each descriptor is the file of the last redirection that names
\* it, so an Output with fd 1 and an Output with fd 2 each stay in effect.
C30_RedirectionsPerDescriptor ==
    \A k \in 1..Len(log) :
        SpawnedWithRedirections(k) =>
            LET redirections == NodeAt(log[k].path).redirections
            IN  InListedOrder(k, {i \in 1..Len(redirections) :
                                      IsApplied(redirections[i])})

\* what holds of C30: the same when every redirection that is applied
\* leaves fd out or gives the descriptor of its kind; with any other fd
\* the redirection still acts on the stream of its kind
RedirectionsPerKind ==
    \A k \in 1..Len(log) :
        SpawnedWithRedirections(k) =>
            LET redirections == NodeAt(log[k].path).redirections
                applied == {i \in 1..Len(redirections) :
                               IsApplied(redirections[i])}
                byKind(r) == [r EXCEPT !.fd = None]
                cmd == Unwrap(log[k].cmd)
            IN  /\ (\A i \in applied :
                      DescriptorOf(redirections[i])
                         = DescriptorOf(byKind(redirections[i]))) =>
                      InListedOrder(k, applied)
                /\ cmd = DefaultToPiped(
                             apply_redirections(
                                 NewCommand, [exists |-> Targets, denied |-> {}],
                                 [i \in 1..Len(redirections) |->
                                     byKind(redirections[i])]).cmd,
                             redirections)

\* test >a 2>b (an Output to a with fd 1, then an Output to b with fd 2)
\* was spawned with its standard output to b and its standard error to a
\* pipe: the second redirection took the place of the first
C30_Witness ==
    \E k \in 1..Len(log) :
        /\ SpawnedWithRedirections(k)
        /\ NodeAt(log[k].path).redirections
              = <<Redirection(Some(1), "Output", <<"a">>),
                  Redirection(Some(2), "Output", <<"b">>)>>
        /\ Unwrap(log[k].cmd).stdout = StdioFile(<<"b">>, "create")
        /\ Unwrap(log[k].cmd).stderr = StdioPiped
        /\ Unwrap(log[k].cmd).opened
              = <<<<(<<"a">>), "create">>, <<(<<"b">>), "create">>>>

\* test >a >>b was spawned with its standard output appended to b and its
\* standard input left alone
LaterOverridesEarlier ==
    \E k \in 1..Len(log) :
        /\ SpawnedWithRedirections(k)
        /\ NodeAt(log[k].path).redirections
              = <<Redirection(None, "Output", <<"a">>),
                  Redirection(None, "Append", <<"b">>)>>
        /\ Unwrap(log[k].cmd).stdout = StdioFile(<<"b">>, "append")
        /\ Unwrap(log[k].cmd).stdin = StdioUnset

\* the files opened for the applied ones among the redirections
OpenedFor(redirections) ==
    LET applied == SelectSeq(redirections, IsApplied)
    IN  [j \in 1..Len(applied) |->
            <<applied[j].target, OpenMode(applied[j].kind)>>]

\* the external command that returned at k could not open the target of
\* one of its Input redirections
InputOpenFailed(k) ==
    /\ IsExternalRet(k)
    /\ IsSome(log[k].cmd)
    /\ IsSome(Unwrap(log[k].cmd).failed)
    /\ Unwrap(Unwrap(log[k].cmd).failed)[2] = "read"

\* C31: if the target of an Input redirection cannot be opened, the
\* external command fails with ShexError::Syntax, never CommandNotFound,
\* the process is not spawned, and the redirections listed after the
\* failing one are not applied: the files opened are those of the
\* redirections before it and no others.
C31_InputOpenFailure ==
    \A k \in 1..Len(log) :
        InputOpenFailed(k) =>
            LET redirections == NodeAt(log[k].path).redirections
                cmd          == Unwrap(log[k].cmd)
                target       == Unwrap(cmd.failed)[1]
            IN  /\ IsErrRet(k)
                /\ ResOf(k).err.kind = "Syntax"
                /\ ResOf(k).err.detail
                      = <<"Cannot open ">> \o target \o <<" for input">>
                /\ log[k].output = None
                /\ \E i \in 1..Len(redirections) :
                      /\ redirections[i].kind = "Input"
                      /\ redirections[i].target = target
                      /\ cmd.opened = OpenedFor(SubSeq(redirections, 1, i - 1))

\* test <a >b with no file a: the command failed with "Cannot open a for
\* input", no process ran and b was not created
C31_Witness ==
    \E k \in 1..Len(log) :
        /\ InputOpenFailed(k)
        /\ NodeAt(log[k].path).redirections
              = <<Redirection(None, "Input", <<"a">>),
                  Redirection(None, "Output", <<"b">>)>>
        /\ ResOf(k) = Err(CannotOpenForInput(<<"a">>))
        /\ log[k].output = None
        /\ Unwrap(log[k].cmd).opened = <<>>
        /\ Finished /\ result = Some(ResOf(k))

\* test >a <b where b cannot be opened: a was created before the failure
EarlierRedirectionApplied ==
    \E k \in 1..Len(log) :
        /\ InputOpenFailed(k)
        /\ NodeAt(log[k].path).redirections
              = <<Redirection(None, "Output", <<"a">>),
                  Redirection(None, "Input", <<"b">>)>>
        /\ Unwrap(log[k].cmd).opened = <<<<(<<"a">>), "create">>>>

(***************************************************************************)
(* Spans of errors                                                         *)
(***************************************************************************)
\* the error returned at k was raised by the node at k itself: nothing was
\* evaluated between its call and its return
RaisedAt(k) ==
    /\ k >= 2
    /\ IsRet(k) /\ IsErrRet(k)
    /\ IsCall(k - 1) /\ log[k - 1].path = log[k].path

\* C32: every ShexError raised during evaluation carries the span of the
\* AST command node whose evaluation failed: an expansion failure in an
\* argument of a simple command, an expansion failure in the word of a
\* Case and a CommandNotFound all report the span of their command.
C32_ErrorsCarryCommandSpan ==
    \A k \in 1..Len(log) :
        RaisedAt(k) => ResOf(k).err.span = SpanOf(log[k].path)

\* what holds of C32: the errors raised by a simple command carry its span,
\* those raised by the word of a Case carry Span::dummy()
SimpleErrorsCarryCommandSpan ==
    \A k \in 1..Len(log) :
        RaisedAt(k) =>
            /\ log[k].type \in {"Simple", "Case"}
            /\ log[k].type = "Simple" => ResOf(k).err.span = SpanOf(log[k].path)
            /\ log[k].type = "Case" => ResOf(k).err.span = DummySpan

\* case $X in ... esac with X unset failed with UndefinedVariable for X at
\* the span 0..0, which is not the span of the Case
C32_Witness ==
    \E k \in 2..Len(log) :
        /\ RaisedAt(k)
        /\ log[k].type = "Case"
        /\ NodeAt(log[k].path).word = ArgDollarX
        /\ ResOf(k) = Err(UndefinedVariable(VarX, DummySpan))
        /\ SpanOf(log[k].path) # DummySpan

\* a redirection whose file cannot be opened fails at the span 0..0 as well
RedirectionErrorAtDummySpan ==
    \E k \in 2..Len(log) :
        /\ InputOpenFailed(k)
        /\ ResOf(k).err.span = DummySpan
        /\ SpanOf(log[k].path) # DummySpan

\* test could not be spawned and echo $X failed with X unset: both errors
\* carry the span of their command
SimpleErrorsWitness ==
    \E k \in 2..Len(log) :
        /\ RaisedAt(k) /\ log[k].type = "Simple"
        /\ ResOf(k).err.kind \in {"CommandNotFound", "UndefinedVariable"}
        /\ Len(log[k].path) >= 2
        /\ ResOf(k).err.span = SpanOf(log[k].path)

(***************************************************************************)
(* Arguments that are not one expansion token                              *)
(***************************************************************************)
\* C33: an argument is replaced by a resolved value only when the whole
\* argument is a single expansion token; every other argument, mixed
\* content such as ${v}b or ${v-x}${v} and malformed forms such as $,
\* $123 or ${1x} included, is passed to the command unchanged as a literal
\* and produces neither an expansion error nor a scope change.
C33_OtherArgumentsAreLiterals ==
    \A k \in 1..Len(log) :
        \A a \in MixedArgs \cup MalformedArgs \cup JoinedArgs :
            IsEchoOf(k, {a}) => EchoedUnchanged(k, a)

\* what holds of C33: the same for every argument that does not both begin
\* with ${ and end with }
UnbracedArgumentsAreLiterals ==
    \A k \in 1..Len(log) :
        \A a \in MixedArgs \cup MalformedArgs :
            IsEchoOf(k, {a}) => EchoedUnchanged(k, a)

\* with v unset, the argument ${v:=x}${v} was taken for one AssignDefault
\* form with the default x}${v: echo printed x}${v and v holds it
C33_Witness ==
    \E k \in 2..Len(log) :
        /\ IsEchoOf(k, {ColonForm(<<"v">>, OpAssign, <<"x">>)
                           \o BracedForm(<<"v">>)})
        /\ CtxGet(log[k - 1].context, <<"v">>) = None
        /\ Echoed(k, <<"x", "}", "$", "{", "v">>)
        /\ CtxGet(log[k].context, <<"v">>) = Some(<<"x", "}", "$", "{", "v">>)

\* with v set to x, ${v}b and $123 were printed as they are
LiteralsPrinted ==
    \E k \in 2..Len(log) :
        /\ CtxGet(log[k - 1].context, <<"v">>) = Some(<<"x">>)
        /\ \/ /\ IsEchoOf(k, {BracedForm(<<"v">>) \o <<"b">>})
              /\ EchoedUnchanged(k, <<"$", "{", "v", "}", "b">>)
           \/ /\ IsEchoOf(k, {<<"$", "1", "2", "3">>})
              /\ EchoedUnchanged(k, <<"$", "1", "2", "3">>)

(***************************************************************************)
(* parse_parameter_expansion                                               *)
(***************************************************************************)
\* the mode an operator stands for
ModeOf(op) ==
    IF op = OpDefault THEN "DefaultValue"
    ELSE IF op = OpAssign THEN "AssignDefault"
    ELSE IF op = OpError THEN "ErrorIfUnset" ELSE "AlternativeValue"

\* the request the text of the last call stands for: the name, the mode of
\* the operator, all of the operand (none for an empty operand of ?), and
\* check_unset for the colon forms
RequestStoodFor(e) ==
    Request(e.name, ModeOf(e.op),
            IF e.op = OpError /\ e.operand = <<>> THEN None ELSE Some(e.operand),
            e.colon)

\* C34: parse_parameter_expansion on ${ N op P } with a valid name N splits
\* at the first operator: for :-, :=, :? and :+ it yields the DefaultValue,
\* AssignDefault, ErrorIfUnset or AlternativeValue request with check_unset
\* = true, for -, =, ? and + the same mode with check_unset = false; the
\* variable_name is N and the parameter all of P, for every P, also one
\* with ':' or further operator characters, except that an empty P for ?
\* gives no parameter.
C34_ParserSplitsAtFirstOperator ==
    LastOp("parse_parameter_expansion") =>
        log[1].request = Some(RequestStoodFor(log[1]))

\* what holds of C34: the same for the colon forms with every P and for
\* the forms without colon with a P that has no colon; with a colon in P
\* those yield no request
ParserSplitsUnlessColon ==
    LastOp("parse_parameter_expansion") =>
        IF ~log[1].colon /\ HasColon(log[1].operand)
        THEN log[1].request = None
        ELSE log[1].request = Some(RequestStoodFor(log[1]))

\* parse_parameter_expansion("${v-a:b}") returned None
C34_Witness ==
    /\ LastOp("parse_parameter_expansion")
    /\ log[1].text = <<"$", "{", "v", "-", "a", ":", "b", "}">>
    /\ log[1].request = None

\* parse_parameter_expansion("${_w1:?a:-b}") returned the ErrorIfUnset
\* request for _w1 with the parameter a:-b and check_unset = true
ColonFormParsed ==
    /\ LastOp("parse_parameter_expansion")
    /\ log[1].text = <<"$", "{", "_", "w", "1", ":", "?", "a", ":", "-", "b", "}">>
    /\ log[1].request = Some(Request(<<"_", "w", "1">>, "ErrorIfUnset",
                                     Some(<<"a", ":", "-", "b">>), TRUE))

(***************************************************************************)
(* The command-line front end                                              *)
(***************************************************************************)
\* the run has ended after an evaluation that returned outcome
ExitedAfter(outcome) == CliExited /\ result = Some(outcome)

\* the run has ended without any evaluation
ExitedEarly == CliExited /\ result = None

\* an error ends the run with status 1, the error on standard error and
\* nothing on standard output
ExitsOnError ==
    /\ \A e \in EarlyErrors :
          (ExitedEarly /\ log[Len(log)].stderr = <<e>>) =>
              log[Len(log)].status = 1 /\ log[Len(log)].stdout = <<>>
    /\ ExitedEarly => \E e \in EarlyErrors : log[Len(log)].stderr = <<e>>
    /\ (CliExited /\ result # None /\ ~Unwrap(result).ok) =>
          /\ log[Len(log)].status = 1
          /\ log[Len(log)].stdout = <<>>
          /\ log[Len(log)].stderr = <<Unwrap(result).err>>

\* C35 as it holds: when lexing, parsing and evaluation all succeed, the
\* exit status of the CLI is the code of the program's ExitStatus modulo
\* 256: the code itself from 0 to 255, and 255 for the code -1 of a last
\* command that a signal ended; it is 1 whenever a ShexError or a read
\* error occurs, and then the error is printed to standard error and
\* nothing of the captured stdout is printed.
C35_CliExitStatus ==
    /\ ExitsOnError
    /\ (CliExited /\ result # None /\ Unwrap(result).ok) =>
          /\ log[Len(log)].status = Unwrap(result).val.code % 256
          /\ log[Len(log)].status \in 0..255
          /\ Unwrap(result).val.code \in 0..255 =>
                log[Len(log)].status = Unwrap(result).val.code
          /\ log[Len(log)].stdout = Unwrap(result).val.stdout
          /\ log[Len(log)].stderr = Unwrap(result).val.stderr

\* C35 as stated: on success the exit status of the CLI equals the code of
\* the program's ExitStatus, and on any error it is 1 with the error on
\* standard error and no stdout.
C35_ExitStatusEqualsCode ==
    /\ ExitsOnError
    /\ (CliExited /\ result # None /\ Unwrap(result).ok) =>
          log[Len(log)].status = Unwrap(result).val.code

\* the last command was ended by a signal: the ExitStatus has the code -1
\* and the CLI exited with 255
C35_Witness ==
    /\ CliExited /\ result # None /\ Unwrap(result).ok
    /\ Unwrap(result).val.code = -1
    /\ log[Len(log)].status = 255
    /\ log[Len(log)].stdout = <<"o">>

\* echo a "" ${Y:=d}; echo $X failed with UndefinedVariable: the CLI exited
\* with 1 and printed nothing of the first command's output
OutputLostOnError ==
    /\ CliExited
    /\ program = <<CmdEchoWords, CmdEchoX>>
    /\ result = Some(Err(UndefinedVariable(VarX, SpanOf(<<2>>))))
    /\ log[Len(log)].status = 1
    /\ log[Len(log)].stdout = <<>>

\* test exited with 1: the CLI exited with 1 and printed what test wrote to
\* standard error
NonZeroExit ==
    /\ CliExited
    /\ program = <<CmdTest>>
    /\ result = Some(Ok(ExitStatus(1, <<>>, <<"e">>)))
    /\ log[Len(log)].status = 1
    /\ log[Len(log)].stderr = <<"e">>

(***************************************************************************)
(* SourceMap                                                               *)
(***************************************************************************)
\* the characters of the source that are newlines and lie before the offset
NewlinesBefore(source, offset) ==
    {i \in 1..Len(source) : source[i] = "\n" /\ ByteOffset(source, i) < offset}

\* the offset of the first byte of the line the offset lies in: after the
\* last newline before the offset, or 0
LineStartOf(source, offset) ==
    IF NewlinesBefore(source, offset) = {} THEN 0
    ELSE LET last == CHOOSE i \in NewlinesBefore(source, offset) :
                         \A j \in NewlinesBefore(source, offset) : j <= i
         IN  ByteOffset(source, last) + 1

\* C36: SourceMap::position(offset) returns, for every byte offset within
\* the source, line = 1 + the number of newline characters before the
\* offset and column = offset - (offset of the first byte of that line) +
\* 1; offset 0 is (1, 1) and the offset just after a newline is column 1 of
\* the next line.  A ShexError built from a span reports the position of
\* span.start.
C36_SourceMapPosition ==
    LastOp("position") =>
        LET source == log[1].source
            offset == log[1].offset
            pos    == log[1].position
        IN  /\ pos.line = 1 + Cardinality(NewlinesBefore(source, offset))
            /\ pos.column = offset - LineStartOf(source, offset) + 1
            /\ offset = 0 => pos = Position(1, 1)
            /\ (\E i \in 1..Len(source) :
                    source[i] = "\n" /\ offset = ByteOffset(source, i) + 1) =>
                  pos.column = 1
            /\ log[1].error.line = pos.line
            /\ log[1].error.column = pos.column
            /\ log[1].error.span.start = offset

\* in the source newline, é, a the offset 3 (the a, after the two bytes of
\* é) is line 2, column 3, and an error built there says so
C36_Witness ==
    /\ LastOp("position")
    /\ log[1].source = <<"\n", "é", "a">>
    /\ log[1].offset = 3
    /\ log[1].position = Position(2, 3)
    /\ log[1].error.line = 2 /\ log[1].error.column = 3

(***************************************************************************)
(* The end of a While                                                      *)
(***************************************************************************)
\* the return at k is that of the last command of the body of a While
IsLastOfWhileBody(k) ==
    LET n == Len(log[k].path)
        p == SubSeq(log[k].path, 1, n - 2)
    IN  /\ IsRet(k) /\ n >= 3
        /\ log[k].path[n - 1] = SelBody
        /\ \E c \in 1..(k - 1) :
              IsCall(c) /\ log[c].type = "While" /\ log[c].path = p
        /\ log[k].path[n] = Len(NodeAt(p).body)

\* the commands that neither fail nor exit non-zero
AlwaysZero == {CmdTrue, CmdAssignX}

\* C37: a While ends without error exactly at the first condition evaluation
\* that exits non-zero: a non-zero exit code of the body never ends the loop
\* or skips the next condition check, and a loop whose condition exits 0 at
\* every evaluation (while true) never terminates.
C37_WhileEndsAtFirstNonZeroCondition ==
    \A k \in 1..Len(log) :
        /\ (IsOkRet(k) /\ log[k].type = "While") =>
              LET conds == RetsWithin(k, log[k].path \o <<SelCondition>>)
              IN  /\ (k - 1) \in conds
                  /\ ResOf(k - 1).ok /\ ResOf(k - 1).val.code # 0
                  /\ \A j \in conds \ {k - 1} :
                        ResOf(j).ok /\ ResOf(j).val.code = 0
        /\ (IsConditionOf(k, "While") /\ ResOf(k).val.code # 0
               /\ k < Len(log)) =>
              IsOkRet(k + 1) /\ log[k + 1].path = ParentPath(k)
        /\ (IsLastOfWhileBody(k) /\ ResOf(k).ok /\ k < Len(log)) =>
              /\ IsCall(k + 1)
              /\ log[k + 1].path =
                    SubSeq(log[k].path, 1, Len(log[k].path) - 2)
                        \o <<SelCondition>>
        /\ (IsRet(k) /\ log[k].type = "While"
               /\ NodeAt(log[k].path).condition = CmdTrue) =>
              /\ ~ResOf(k).ok
              /\ \E c \in 1..Len(NodeAt(log[k].path).body) :
                    NodeAt(log[k].path).body[c] \notin AlwaysZero \cup {CmdFalse}

\* the body of a While has exited with code 1 twice, the condition was
\* evaluated again each time, and the loop ended when it exited non-zero
C37_Witness ==
    \E k \in 1..Len(log) :
        /\ IsOkRet(k) /\ log[k].type = "While"
        /\ NodeAt(log[k].path).body = <<CmdFalse>>
        /\ Cardinality(RetsWithin(k, log[k].path \o <<SelBody, 1>>)) = 2
        /\ Cardinality(RetsWithin(k, log[k].path \o <<SelCondition>>)) = 3
        /\ ResOf(k).val.code = 1

\* while true with a body that exits 1 is still running after three
\* evaluations of its condition and three runs of its body
WhileTrueStillRuns ==
    \E c \in 1..Len(log) :
        /\ IsCall(c) /\ log[c].type = "While"
        /\ NodeAt(log[c].path).condition = CmdTrue
        /\ NodeAt(log[c].path).body = <<CmdFalse>>
        /\ Cardinality({j \in (c + 1)..Len(log) :
               IsOkRet(j) /\ log[j].path = log[c].path \o <<SelCondition>>}) >= 3
        /\ Cardinality({j \in (c + 1)..Len(log) :
               IsOkRet(j) /\ log[j].path = log[c].path \o <<SelBody, 1>>
                   /\ ResOf(j).val.code = 1}) >= 3
        /\ \A j \in (c + 1)..Len(log) : log[j].path # log[c].path

(***************************************************************************)
(* The arguments of one command                                            *)
(***************************************************************************)
\* the return at k is that of a simple command with two arguments
IsTwoArgumentReturn(k) ==
    /\ IsRet(k) /\ log[k].type = "Simple"
    /\ Len(NodeAt(log[k].path).args) = 2

\* every prefix assignment of the command that returned at k is in the
\* scope it returned with
PrefixAssigned(k) ==
    \A i \in 1..Len(NodeAt(log[k].path).assignments) :
        CtxGet(log[k].context, NodeAt(log[k].path).assignments[i][1])
            = Some(NodeAt(log[k].path).assignments[i][2])

\* the first argument of the command that returned at k assigns a default
\* to a variable that was unset, or empty under the colon form, at the call
FirstAssignsDefault(k) ==
    LET args == NodeAt(log[k].path).args
        was  == CtxGet(log[k - 1].context, <<"v">>)
    IN  \/ args[1] = ColonForm(<<"v">>, OpAssign, <<"x">>)
           /\ was \in {None, Some(<<>>)}
        \/ args[1] = BareForm(<<"v">>, OpAssign, <<"x">>) /\ was = None

\* C38: the arguments of a simple command are expanded left to right against
\* the live scope, so that the side effect of an earlier argument is visible
\* to a later one; when a later argument's expansion fails the command is
\* not dispatched, and the prefix assignments and the AssignDefault
\* assignments made by earlier arguments remain in the scope.
C38_ArgumentsSeeEarlierSideEffects ==
    \A k \in 1..Len(log) :
        IsTwoArgumentReturn(k) =>
            LET node   == NodeAt(log[k].path)
                span   == SpanOf(log[k].path)
                scope  == execute_assignments(log[k - 1].context,
                                              node.assignments)
                first  == expand_single_argument(scope, node.args[1], span)
                second == expand_single_argument(first.context, node.args[2],
                                                 span)
            IN  /\ IsCall(k - 1)
                /\ ~first.res.ok =>
                      /\ ResOf(k) = first.res
                      /\ log[k].output = None
                /\ first.res.ok =>
                      /\ log[k].context = second.context
                      /\ second.res.ok =>
                            /\ node.name = "echo" =>
                                  ResOf(k) = Ok(ExitStatus(0,
                                      first.res.val \o <<" ">>
                                          \o second.res.val \o <<"\n">>, <<>>))
                            /\ node.name = "test" => log[k].output # None
                      /\ ~second.res.ok =>
                            /\ ResOf(k) = second.res
                            /\ log[k].output = None /\ log[k].cmd = None
                /\ PrefixAssigned(k)
                /\ FirstAssignsDefault(k) =>
                      /\ CtxGet(log[k].context, <<"v">>) = Some(<<"x">>)
                      /\ (node.name = "echo" /\ node.args[2] = DollarForm(<<"v">>)) =>
                            ResOf(k) = Ok(ExitStatus(0, <<"x", " ", "x", "\n">>,
                                                     <<>>))

\* echo ${v:=x} $v with v unset has printed x x
C38_Witness ==
    \E k \in 1..Len(log) :
        /\ IsTwoArgumentReturn(k)
        /\ NodeAt(log[k].path).name = "echo"
        /\ NodeAt(log[k].path).args
              = <<ColonForm(<<"v">>, OpAssign, <<"x">>), DollarForm(<<"v">>)>>
        /\ CtxGet(log[k - 1].context, <<"v">>) = None
        /\ ResOf(k) = Ok(ExitStatus(0, <<"x", " ", "x", "\n">>, <<>>))

\* _w1=b test ${v=x} $u has failed at its second argument without a process,
\* and v and _w1 are set afterwards
AssignmentsRemainAfterFailure ==
    \E k \in 1..Len(log) :
        /\ IsTwoArgumentReturn(k)
        /\ NodeAt(log[k].path).name = "test"
        /\ NodeAt(log[k].path).assignments # <<>>
        /\ NodeAt(log[k].path).args[2] = DollarForm(NeverSet)
        /\ FirstAssignsDefault(k)
        /\ CtxGet(log[k - 1].context, <<"_", "w", "1">>) = None
        /\ ~ResOf(k).ok /\ ResOf(k).err.kind = "UndefinedVariable"
        /\ log[k].output = None
        /\ CtxGet(log[k].context, <<"v">>) = Some(<<"x">>)
        /\ CtxGet(log[k].context, <<"_", "w", "1">>) = Some(<<"b">>)

(***************************************************************************)
(* Interpreter::exit_code                                                  *)
(***************************************************************************)
\* execute returns in this step
ExecuteReturns == result = None /\ result' # None

\* C39: exit_code() is 0 on a new Interpreter; after every execute call that
\* returns Ok it equals the code of the returned ExitStatus; an execute call
\* that returns a ShexError leaves it at the value it had before the call.
C39_ExitCodeFollowsExecute ==
    /\ exit_code = 0
    /\ [][/\ (ExecuteReturns /\ result'[1].ok) =>
                exit_code' = result'[1].val.code
          /\ ~(ExecuteReturns /\ result'[1].ok) => exit_code' = exit_code]_vars

\* an execute call has returned a ShexError on an interpreter whose last
\* successful call returned code 2, and exit_code() is still 2
C39_Witness ==
    /\ Finished /\ ~result[1].ok
    /\ exit_code = 2

\* an execute call has returned Ok with code 1 and exit_code() is 1
ExitCodeOfLastStatus ==
    /\ Finished /\ result[1].ok
    /\ result[1].val.code = 1
    /\ exit_code = 1

(***************************************************************************)
(* Redirections on built-ins                                               *)
(***************************************************************************)
\* the return at k is that of echo, true or false with redirections
IsRedirectedBuiltin(k) ==
    /\ IsRet(k) /\ log[k].type = "Simple"
    /\ NodeAt(log[k].path).name \in {"echo", "true", "false"}
    /\ NodeAt(log[k].path).redirections # <<>>

\* C40: redirections attached to a built-in (echo, true, false) are never
\* applied: no redirection target is opened, created or truncated, a
\* built-in with an Input redirection to a file that cannot be opened still
\* succeeds, and echo's text is returned in ExitStatus.stdout even when an
\* Output or Append redirection is present.
C40_BuiltinsIgnoreRedirections ==
    \A k \in 1..Len(log) :
        IsRedirectedBuiltin(k) =>
            LET node == NodeAt(log[k].path)
                text == expand_arguments(log[k - 1].context, node.args,
                                         SpanOf(log[k].path)).res.val
            IN  /\ log[k].cmd = None
                /\ log[k].output = None
                /\ ResOf(k).ok
                /\ ResOf(k).val.stderr = <<>>
                /\ node.name = "echo" =>
                      /\ ResOf(k).val.code = 0
                      /\ ResOf(k).val.stdout = Join(text, <<" ">>) \o <<"\n">>
                /\ node.name = "true" => ResOf(k).val = ExitStatus(0, <<>>, <<>>)
                /\ node.name = "false" => ResOf(k).val = ExitStatus(1, <<>>, <<>>)

\* echo a "" ${Y:=d} <a >b has returned its text in stdout without a
\* StdCommand, whatever the state of the files a and b
C40_Witness ==
    \E k \in 1..Len(log) :
        /\ IsRedirectedBuiltin(k)
        /\ NodeAt(log[k].path).name = "echo"
        /\ Len(NodeAt(log[k].path).redirections) = 2
        /\ NodeAt(log[k].path).redirections[1].kind = "Input"
        /\ NodeAt(log[k].path).redirections[2].kind = "Output"
        /\ log[k].cmd = None
        /\ ResOf(k) = Ok(ExitStatus(0, <<"a", " ", " ", "d", "\n">>, <<>>))

\* false >>a has returned code 1 without a StdCommand
RedirectedFalse ==
    \E k \in 1..Len(log) :
        /\ IsRedirectedBuiltin(k)
        /\ NodeAt(log[k].path).name = "false"
        /\ NodeAt(log[k].path).redirections[1].kind = "Append"
        /\ log[k].cmd = None
        /\ ResOf(k) = Ok(ExitStatus(1, <<>>, <<>>))

====
